---- MODULE Spec2Model ----
(***************************************************************************)
(* HyperMind tiered context memory (HyperMindService): the four-tier       *)
(* memory store, the scope stack and the context graph, with the           *)
(* operations pushScope, popScope, storeContext, retrieveContext and       *)
(* searchContexts; and the scope service (ScopeService) with the tensor    *)
(* registry (TensorLogicService) and the space and boundary registries     *)
(* (ATenSpaceService) it drives.                                           *)
(*                                                                         *)
(* Strings are sequences of tokens, JavaScript objects with insertion      *)
(* ordered keys are sequences of entries, scope instances live in a heap   *)
(* (frames) and are referred to by their index, and the wall clock is      *)
(* counted in whole hours.                                                 *)
(***************************************************************************)
EXTENDS Integers, Sequences, FiniteSets, TLC

VARIABLES memoryStore, scopeStack, contextGraph, frames, now, storeCalls, last,
          org, project, tensorRegistry, spaceRegistry, boundaries, atomSpace

\* the fields of ScopeService, TensorLogicService and ATenSpaceService
serviceVars == <<org, project, tensorRegistry, spaceRegistry, boundaries, atomSpace>>

vars == <<memoryStore, scopeStack, contextGraph, frames, now, storeCalls, last,
          org, project, tensorRegistry, spaceRegistry, boundaries, atomSpace>>

----------------------------------------------------------------------------
(* Bounds of the model *)

MaxStores == 2
MaxAccess == 1
MaxTicks == 1
DeepStores == 1
DeepAccess == 12
DeepFrames == 1
DeepTicks == 1
ArchFrames == 2
ArchAccess == 1
SearchStores == 2
SearchTicks == 1
GraphFrames == 2
GraphAccess == 1
SelectFrames == 3
ServiceFrames == 2
ServiceTicks == 1
SpaceFrames == 2
SpaceOps == 2
DemoteStores == 2
DemoteAccess == 5
DemoteHalfDays == 3
SurviveStores == 3
SurviveAccess == 11
UniqueStores == 2
UniqueAccess == 11
UniqueFrames == 1
KeptStores == 2
KeptAccess == 1
KeptTicks == 1
KeptFrames == 1
OverStores == 2
OverAccess == 1
OverTicks == 1
ClimbStores == 2
ClimbAccess == 13
ClimbTicks == 1
CrossStores == 2
CrossAccess == 11
CrossFrames == 1
CrossTicks == 1
DedupStores == 3
ScopeStores == 1
ScopeAccess == 1
ScopeFrames == 3

(* Program constants *)

AgeLimitHours == 24
DemoteAccessBelow == 5
PromoteAccessAbove == 10

----------------------------------------------------------------------------
(* Data *)

Tiers == {"hot", "warm", "cold", "archived"}

\* the order retrieveContext scans the tiers in
SearchOrder == <<"hot", "warm", "cold", "archived">>

\* mutant: the dedup pass scans archived too
DedupOrderWithArchived == SearchOrder

\* the tiers _deduplicateContexts scans, in order
DedupOrder == <<"hot", "warm", "cold">>

\* const tierOrder in _promoteIfNeeded
tierOrder == <<"archived", "cold", "warm", "hot">>

\* tierOrder.indexOf(t), counted from 1
TierIndex(t) == CHOOSE i \in 1..Len(tierOrder) : tierOrder[i] = t

NoRef == 0
NoTime == -1

\* JavaScript values: null, NaN and the string "a"
PrimValue(p) == [kind |-> "prim", prim |-> p, ref |-> NoRef]
\* a scope instance, held by reference
ScopeValue(r) == [kind |-> "scope", prim |-> "", ref |-> r]
NullValue == PrimValue("null")

Values == {PrimValue("NaN"), PrimValue("a")}
DedupValues == {PrimValue("null"), PrimValue("NaN"), PrimValue("a")}
DeepValues == {PrimValue("a")}

UserKeys == {<<"k", "1">>, <<"k", "2">>}
DeepKeys == {<<"k", "1">>}
DedupKeys == UserKeys \cup {<<"k", "3">>}
\* a key naming a member every tier object inherits from Object.prototype
ObjectPrototypeKeys == {<<"constructor">>}

\* options.tier as passed by a caller: "" stands for an omitted tier
TierInputs == {"", "cold", "archived", "bogus"}
\* options.significance as passed by a caller: 0 stands for an omitted one
SignificanceInputs == {0}
\* space names as passed to executeInSpace
SpaceNames == {<<"domain_", "org", "_", "o1">>, <<"domain_", "project", "_", "p1">>,
               <<"missing">>, <<"constructor">>}
Operations == {"add"}
\* scope configs: strings, as sequences of characters
Configs == {<<"parent">>}
\* a config holding a character that JSON escapes
GraphConfigs == {<<"parent">>, <<"a", "\"", "b">>}
DedupTierInputs == {"", "cold", "archived"}
DeepTierInputs == {"", "cold", "archived"}
CrossTierInputs == {"", "archived"}
ClimbTierInputs == {"", "warm", "cold", "archived"}
OverTierInputs == {"", "warm", "cold"}
DemoteTierInputs == {"", "warm"}
\* query.searchType as passed by a caller: "" stands for an omitted one
SearchTypeInputs == {"", "chronological", "graph", "vector"}
\* query.term; an omitted term is searched for as the string "undefined"
Terms == {<<>>, <<"k">>, <<"2">>, <<"k", "1">>, <<"undefined">>}
GraphTerms == {<<>>, <<"1">>, <<"parent">>, <<"k">>, <<"a", "\"", "b">>, <<"b">>}

\* a scope model, or null or undefined in its place
ScopeModel(id, type) ==
  [kind |-> "model", id |-> id, type |-> type, isGlobal |-> type = "global",
   isOrg |-> type = "org", isProject |-> type = "project"]
Null == [kind |-> "null", id |-> "", type |-> "", isGlobal |-> FALSE,
         isOrg |-> FALSE, isProject |-> FALSE]
Undefined == [Null EXCEPT !.kind = "undefined"]

\* the models the scope service is called with
ModelInputs == {Null, Undefined, ScopeModel("o1", "org"), ScopeModel("p1", "project")}

\* the models setOrg and setProject are called with, two orgs among them
SelectInputs == ModelInputs \cup {ScopeModel("o2", "org")}

\* mutant: only null counts as no model
FalsyNullOnly(m) == m.kind = "null"

\* !scopeModel
Falsy(m) == m.kind \in {"null", "undefined"}

\* _generateScopeId: `scope_${Date.now()}_${random}`, distinct per instance
GenerateScopeId(r) == <<"scope_", ToString(r)>>

\* mutant: the scope is archived under its bare id
ArchiveKeyBare(id) == id

\* the key _archiveScope stores a scope under
ArchiveKey(id) == <<"scope_">> \o id

AllKeys == DedupKeys \cup {ArchiveKey(GenerateScopeId(r)) : r \in 1..(DeepFrames + CrossFrames + ScopeFrames)}

----------------------------------------------------------------------------
(* JSON.stringify *)

\* the characters of a string as JSON writes them: a quote gets a backslash
RECURSIVE EscapeChars(_, _)
EscapeChars(str, i) ==
  IF i > Len(str) THEN <<>>
  ELSE (IF str[i] = "\"" THEN <<"\\", "\"">> ELSE <<str[i]>>) \o EscapeChars(str, i + 1)

\* JSON.stringify of a string
StringifyString(str) == <<"\"">> \o EscapeChars(str, 1) \o <<"\"">>

\* the fields of a scope instance before its parent, as JSON writes them
StringifyOwnFields(fr, r) ==
  <<"{", "id:">> \o StringifyString(fr[r].id)
    \o <<"config:">> \o StringifyString(fr[r].config)
    \o <<"context:", "{}", "timestamp:", ToString(fr[r].timestamp)>>

\* JSON.stringify of a scope instance: its parent is written inside it
RECURSIVE StringifyFrame(_, _)
StringifyFrame(fr, r) ==
  StringifyOwnFields(fr, r) \o <<"parent:">>
    \o (IF fr[r].parent = NoRef THEN <<"null">> ELSE StringifyFrame(fr, fr[r].parent))
    \o <<"}">>

\* JSON.stringify(value): NaN and null both serialize to null
JSONStringify(fr, v) ==
  IF v.kind = "scope" THEN StringifyFrame(fr, v.ref)
  ELSE IF v.prim = "NaN" THEN <<"null">>
  ELSE IF v.prim = "null" THEN <<"null">>
  ELSE <<"\"", v.prim, "\"">>

----------------------------------------------------------------------------
(* One tier: a JavaScript object, its own keys in insertion order *)

HasKey(obj, k) == \E i \in 1..Len(obj) : obj[i].key = k

IndexOfKey(obj, k) == CHOOSE i \in 1..Len(obj) : obj[i].key = k

GetKey(obj, k) == obj[IndexOfKey(obj, k)]

\* obj[k] = e: an existing key keeps its place, a new key goes last
SetKey(obj, e) ==
  IF HasKey(obj, e.key)
  THEN [obj EXCEPT ![IndexOfKey(obj, e.key)] = e]
  ELSE Append(obj, e)

\* delete obj[k]
DeleteKey(obj, k) == SelectSeq(obj, LAMBDA e : e.key # k)

----------------------------------------------------------------------------
(* The memory store operations, as functions of the store *)

\* mutant: the scan runs in promotion order, archived first
FirstTierWithPromotionOrder(ms, key) ==
  IF \E i \in 1..Len(tierOrder) : HasKey(ms[tierOrder[i]], key)
  THEN tierOrder[CHOOSE i \in 1..Len(tierOrder) :
         /\ HasKey(ms[tierOrder[i]], key)
         /\ \A j \in 1..(i - 1) : ~HasKey(ms[tierOrder[j]], key)]
  ELSE ""

\* mutant: the scan goes on to the last tier that holds the key
LastTierWith(ms, key) ==
  IF \E i \in 1..Len(SearchOrder) : HasKey(ms[SearchOrder[i]], key)
  THEN SearchOrder[CHOOSE i \in 1..Len(SearchOrder) :
         /\ HasKey(ms[SearchOrder[i]], key)
         /\ \A j \in (i + 1)..Len(SearchOrder) : ~HasKey(ms[SearchOrder[j]], key)]
  ELSE ""

\* the first tier, in retrieveContext's scan order, that holds key ("" if none)
FirstTierWith(ms, key) ==
  IF \E i \in 1..Len(SearchOrder) : HasKey(ms[SearchOrder[i]], key)
  THEN SearchOrder[CHOOSE i \in 1..Len(SearchOrder) :
         /\ HasKey(ms[SearchOrder[i]], key)
         /\ \A j \in 1..(i - 1) : ~HasKey(ms[SearchOrder[j]], key)]
  ELSE ""

\* mutant: an entry is demoted as soon as it is 24 hours old
RECURSIVE DemoteLoopAtLimit(_, _, _, _)
DemoteLoopAtLimit(ms, entries, i, clock) ==
  IF i > Len(entries) THEN ms
  ELSE LET entry == entries[i]
           ageInHours == clock - entry.timestamp
       IN IF ageInHours >= AgeLimitHours /\ entry.accessCount < DemoteAccessBelow
          THEN DemoteLoopAtLimit([ms EXCEPT !["warm"] = SetKey(@, entry),
                                            !["hot"] = DeleteKey(@, entry.key)],
                                 entries, i + 1, clock)
          ELSE DemoteLoopAtLimit(ms, entries, i + 1, clock)

\* the loop of _optimizeMemory over Object.entries(hot), taken before the loop
RECURSIVE DemoteLoop(_, _, _, _)
DemoteLoop(ms, entries, i, clock) ==
  IF i > Len(entries) THEN ms
  ELSE LET entry == entries[i]
           ageInHours == clock - entry.timestamp
       IN IF ageInHours > AgeLimitHours /\ entry.accessCount < DemoteAccessBelow
          THEN DemoteLoop([ms EXCEPT !["warm"] = SetKey(@, entry),
                                     !["hot"] = DeleteKey(@, entry.key)],
                          entries, i + 1, clock)
          ELSE DemoteLoop(ms, entries, i + 1, clock)

\* the inner loop of _deduplicateContexts over one tier's entries
RECURSIVE DedupTier(_, _, _, _, _, _)
DedupTier(ms, fr, tier, entries, i, seen) ==
  IF i > Len(entries) THEN [ms |-> ms, seen |-> seen]
  ELSE LET valueStr == JSONStringify(fr, entries[i].value)
       IN IF valueStr \in seen
          THEN DedupTier([ms EXCEPT ![tier] = DeleteKey(@, entries[i].key)],
                         fr, tier, entries, i + 1, seen)
          ELSE DedupTier(ms, fr, tier, entries, i + 1, seen \cup {valueStr})

\* mutant: the set of seen serializations is started afresh for every tier
RECURSIVE DedupLoopPerTier(_, _, _, _)
DedupLoopPerTier(ms, fr, t, seen) ==
  IF t > Len(DedupOrder) THEN ms
  ELSE LET r == DedupTier(ms, fr, DedupOrder[t], ms[DedupOrder[t]], 1, {})
       IN DedupLoopPerTier(r.ms, fr, t + 1, {})

\* mutant: the tiers are scanned from cold to hot
RECURSIVE DedupLoopColdFirst(_, _, _, _)
DedupLoopColdFirst(ms, fr, t, seen) ==
  IF t > Len(DedupOrder) THEN ms
  ELSE LET tier == DedupOrder[Len(DedupOrder) + 1 - t]
           r == DedupTier(ms, fr, tier, ms[tier], 1, seen)
       IN DedupLoopColdFirst(r.ms, fr, t + 1, r.seen)

RECURSIVE DedupLoop(_, _, _, _)
DedupLoop(ms, fr, t, seen) ==
  IF t > Len(DedupOrder) THEN ms
  ELSE LET r == DedupTier(ms, fr, DedupOrder[t], ms[DedupOrder[t]], 1, seen)
       IN DedupLoop(r.ms, fr, t + 1, r.seen)

DeduplicateContexts(ms, fr) == DedupLoop(ms, fr, 1, {})

\* mutant: the maintenance pass demotes and does not deduplicate
OptimizeMemoryDemoteOnly(ms, fr, clock) == DemoteLoop(ms, ms["hot"], 1, clock)

OptimizeMemory(ms, fr, clock) ==
  DeduplicateContexts(DemoteLoop(ms, ms["hot"], 1, clock), fr)

\* options.tier || 'hot'
TierOption(tierIn) == IF tierIn = "" THEN "hot" ELSE tierIn

\* options.significance || 1.0
SignificanceOption(sigIn) == IF sigIn = 0 THEN 1 ELSE sigIn

ContextEntry(key, value, sigIn, clock) ==
  [key |-> key, value |-> value, timestamp |-> clock, accessCount |-> 0,
   lastAccessed |-> NoTime, significance |-> SignificanceOption(sigIn)]

\* mutant: the key is first removed from every tier, then stored
StoreIntoOneTierOnly(ms, fr, clock, key, value, tier, sigIn) ==
  OptimizeMemory([t \in Tiers |->
                    IF t = tier
                    THEN SetKey(ms[t], ContextEntry(key, value, sigIn, clock))
                    ELSE DeleteKey(ms[t], key)],
                 fr, clock)

\* storeContext on a tier of the store
StoreInto(ms, fr, clock, key, value, tier, sigIn) ==
  OptimizeMemory([ms EXCEPT ![tier] = SetKey(@, ContextEntry(key, value, sigIn, clock))],
                 fr, clock)

\* mutant: the entry is copied to the new tier and not removed from its own
PromoteKeepingSource(ms, key, currentTier) ==
  LET currentIndex == TierIndex(currentTier)
  IN IF ~HasKey(ms[currentTier], key) THEN ms
     ELSE LET entry == GetKey(ms[currentTier], key)
          IN IF entry.accessCount > PromoteAccessAbove /\ currentIndex < Len(tierOrder)
             THEN [ms EXCEPT ![tierOrder[currentIndex + 1]] = SetKey(@, entry)]
             ELSE ms

\* mutant: promotion already at accessCount 10
PromoteAtThreshold(ms, key, currentTier) ==
  LET currentIndex == TierIndex(currentTier)
  IN IF ~HasKey(ms[currentTier], key) THEN ms
     ELSE LET entry == GetKey(ms[currentTier], key)
          IN IF entry.accessCount >= PromoteAccessAbove /\ currentIndex < Len(tierOrder)
             THEN [ms EXCEPT ![tierOrder[currentIndex + 1]] = SetKey(@, entry),
                             ![currentTier] = DeleteKey(@, key)]
             ELSE ms

\* mutant: promotion goes straight to the top tier
PromoteToHot(ms, key, currentTier) ==
  LET currentIndex == TierIndex(currentTier)
  IN IF ~HasKey(ms[currentTier], key) THEN ms
     ELSE LET entry == GetKey(ms[currentTier], key)
          IN IF entry.accessCount > PromoteAccessAbove /\ currentIndex < Len(tierOrder)
             THEN [ms EXCEPT ![tierOrder[Len(tierOrder)]] = SetKey(@, entry),
                             ![currentTier] = DeleteKey(@, key)]
             ELSE ms

\* mutant: a promoted entry starts counting its accesses afresh
PromoteResettingCount(ms, key, currentTier) ==
  LET currentIndex == TierIndex(currentTier)
  IN IF ~HasKey(ms[currentTier], key) THEN ms
     ELSE LET entry == GetKey(ms[currentTier], key)
          IN IF entry.accessCount > PromoteAccessAbove /\ currentIndex < Len(tierOrder)
             THEN [ms EXCEPT ![tierOrder[currentIndex + 1]] =
                               SetKey(@, [entry EXCEPT !.accessCount = 0]),
                             ![currentTier] = DeleteKey(@, key)]
             ELSE ms

PromoteIfNeeded(ms, key, currentTier) ==
  LET currentIndex == TierIndex(currentTier)
  IN IF ~HasKey(ms[currentTier], key) THEN ms
     ELSE LET entry == GetKey(ms[currentTier], key)
          IN IF entry.accessCount > PromoteAccessAbove /\ currentIndex < Len(tierOrder)
             THEN LET newTier == tierOrder[currentIndex + 1]
                  IN [ms EXCEPT ![newTier] = SetKey(@, entry),
                                ![currentTier] = DeleteKey(@, key)]
             ELSE ms

\* entry.metadata.accessCount++; entry.metadata.lastAccessed = now
Touch(entry, clock) ==
  [entry EXCEPT !.accessCount = @ + 1, !.lastAccessed = clock]

\* mutant: retrieveContext runs the maintenance pass too
RetrieveThenOptimize(ms, key, tier, clock) ==
  OptimizeMemory(
    PromoteIfNeeded([ms EXCEPT ![tier] = SetKey(@, Touch(GetKey(@, key), clock))],
                    key, tier),
    frames, clock)

\* mutant: every copy of the key is counted as accessed, not only the one found
RetrieveFromEveryTier(ms, key, tier, clock) ==
  PromoteIfNeeded([t \in Tiers |->
                     IF HasKey(ms[t], key)
                     THEN SetKey(ms[t], Touch(GetKey(ms[t], key), clock))
                     ELSE ms[t]],
                  key, tier)

\* retrieveContext on a key found in tier
RetrieveFrom(ms, key, tier, clock) ==
  PromoteIfNeeded([ms EXCEPT ![tier] = SetKey(@, Touch(GetKey(@, key), clock))],
                  key, tier)

----------------------------------------------------------------------------
(* searchContexts *)

\* str.includes(term)
Includes(str, term) ==
  \E i \in 1..(Len(str) - Len(term) + 1) : SubSeq(str, i, i + Len(term) - 1) = term

\* { key, ...entry, tier }
SearchResult(entry, tier) ==
  [key |-> entry.key, value |-> entry.value, timestamp |-> entry.timestamp,
   accessCount |-> entry.accessCount, lastAccessed |-> entry.lastAccessed,
   significance |-> entry.significance, tier |-> tier]

\* the entries of one tier whose key includes the term, in insertion order
RECURSIVE MatchesIn(_, _, _, _)
MatchesIn(obj, tier, term, i) ==
  IF i > Len(obj) THEN <<>>
  ELSE (IF Includes(obj[i].key, term) THEN <<SearchResult(obj[i], tier)>> ELSE <<>>)
       \o MatchesIn(obj, tier, term, i + 1)

\* mutant: the array is left in scan order
SortNot(results, n) == results

\* the scan of searchContexts over hot, warm, cold, archived
RECURSIVE ScanTiers(_, _, _)
ScanTiers(ms, term, t) ==
  IF t > Len(SearchOrder) THEN <<>>
  ELSE MatchesIn(ms[SearchOrder[t]], SearchOrder[t], term, 1)
       \o ScanTiers(ms, term, t + 1)

\* where a stable sort by timestamp, latest first, puts r in a sorted array
InsertByRecency(sorted, r) ==
  LET after == {i \in 1..Len(sorted) : sorted[i].timestamp < r.timestamp}
      at == IF after = {} THEN Len(sorted) + 1
            ELSE CHOOSE i \in after : \A j \in after : i <= j
  IN SubSeq(sorted, 1, at - 1) \o <<r>> \o SubSeq(sorted, at, Len(sorted))

\* results.sort((a, b) => new Date(b.metadata.timestamp) - new Date(a.metadata.timestamp))
RECURSIVE SortByRecency(_, _)
SortByRecency(results, n) ==
  IF n = 0 THEN <<>>
  ELSE InsertByRecency(SortByRecency(results, n - 1), results[n])

\* mutant: a node is matched on the fields of its own scope, parent left out
RECURSIVE GraphSearchShallow(_, _, _, _)
GraphSearchShallow(graph, fr, term, i) ==
  IF i > Len(graph.nodes) THEN <<>>
  ELSE (IF Includes(StringifyOwnFields(fr, graph.nodes[i].data), term)
        THEN <<[key |-> graph.nodes[i].id, value |-> ScopeValue(graph.nodes[i].data),
                type |-> "graph-node"]>>
        ELSE <<>>)
       \o GraphSearchShallow(graph, fr, term, i + 1)

\* _graphSearch(term)
RECURSIVE GraphSearch(_, _, _, _)
GraphSearch(graph, fr, term, i) ==
  IF i > Len(graph.nodes) THEN <<>>
  ELSE (IF Includes(StringifyFrame(fr, graph.nodes[i].data), term)
        THEN <<[key |-> graph.nodes[i].id, value |-> ScopeValue(graph.nodes[i].data),
                type |-> "graph-node"]>>
        ELSE <<>>)
       \o GraphSearch(graph, fr, term, i + 1)

\* mutant: a search of no given type is a graph search
SearchTypeOptionGraph(typeIn) == IF typeIn = "" THEN "graph" ELSE typeIn

\* const { searchType = 'chronological', term } = query
SearchTypeOption(typeIn) == IF typeIn = "" THEN "chronological" ELSE typeIn

\* the array searchContexts returns
SearchResults(ms, graph, fr, typeIn, term) ==
  LET searchType == SearchTypeOption(typeIn)
  IN IF searchType = "chronological"
     THEN LET results == ScanTiers(ms, term, 1)
          IN SortByRecency(results, Len(results))
     ELSE IF searchType = "graph"
     THEN GraphSearch(graph, fr, term, 1)
     ELSE <<>>

----------------------------------------------------------------------------
(* State *)

\* what is remembered of the storeContext call that came directly before
NoPrev == [key |-> <<>>, value |-> NullValue, tier |-> "", held |-> FALSE,
           duplicate |-> FALSE]

\* The last call: the operation, its arguments and its result; run counts the
\* retrieveContext calls of key made in a row since its storeContext; shadowed,
\* held and duplicate describe the store just before a storeContext, landed
\* the store just after it; prev is the storeContext call directly before.
\* For a searchContexts call, key is the term, searchType the type asked for
\* and results the array returned; for a call of the scope service, model is
\* the scope model passed; for an executeInSpace call key is the space name.
\* message is the message of the error thrown ("TypeError" for one thrown by
\* the runtime).
NoOp == [op |-> "init", key |-> <<>>, value |-> NullValue, tier |-> "",
         result |-> NullValue, error |-> FALSE, run |-> 0,
         shadowed |-> FALSE, held |-> FALSE, duplicate |-> FALSE,
         landed |-> FALSE, prev |-> NoPrev, searchType |-> "", results |-> <<>>,
         model |-> Undefined, message |-> ""]

Init ==
  /\ memoryStore = [t \in Tiers |-> <<>>]
  /\ scopeStack = <<>>
  /\ contextGraph = [nodes |-> <<>>, edges |-> <<>>]
  /\ frames = <<>>
  /\ now = 0
  /\ storeCalls = [k \in AllKeys |-> 0]
  /\ last = NoOp
  /\ org = Undefined
  /\ project = Undefined
  /\ tensorRegistry = <<>>
  /\ spaceRegistry = <<>>
  /\ boundaries = <<>>
  /\ atomSpace = [atoms |-> <<>>, links |-> <<>>]

\* calls of storeContext made by callers so far (popScope's own are not counted)
TotalStores == storeCalls[<<"k", "1">>] + storeCalls[<<"k", "2">>] + storeCalls[<<"k", "3">>]

\* some tier scanned before tier holds key
Shadowed(ms, key, tier) ==
  \E i, j \in 1..Len(SearchOrder) :
    /\ SearchOrder[j] = tier
    /\ i < j
    /\ HasKey(ms[SearchOrder[i]], key)

\* an entry of hot, warm or cold, other than the one under key in tier, whose
\* value serializes as value does
Duplicated(ms, fr, key, value, tier) ==
  \E t \in {"hot", "warm", "cold"} : \E i \in 1..Len(ms[t]) :
    /\ ~(t = tier /\ ms[t][i].key = key)
    /\ JSONStringify(fr, ms[t][i].value) = JSONStringify(fr, value)

\* the entry just stored is the one a retrieveContext of key finds
Landed(ms, key, value, tier, sigIn, clock) ==
  /\ FirstTierWith(ms, key) = tier
  /\ GetKey(ms[tier], key) = ContextEntry(key, value, sigIn, clock)

----------------------------------------------------------------------------
(* Actions *)

\* mutant: the node is added and the edge to the parent is not
UpdateContextGraphNoEdge(graph, fr, r) ==
  [graph EXCEPT !.nodes = Append(@, [id |-> fr[r].id, type |-> "scope", data |-> r])]

\* mutant: the graph is started afresh with the scope pushed
UpdateContextGraphFresh(graph, fr, r) ==
  [nodes |-> <<[id |-> fr[r].id, type |-> "scope", data |-> r]>>, edges |-> <<>>]

\* mutant: the edge runs from the scope pushed to its parent
UpdateContextGraphReversed(graph, fr, r) ==
  LET withNode == [graph EXCEPT !.nodes =
                     Append(@, [id |-> fr[r].id, type |-> "scope", data |-> r])]
  IN IF fr[r].parent # NoRef
     THEN [withNode EXCEPT !.edges =
             Append(@, [from |-> fr[r].id, to |-> fr[fr[r].parent].id,
                        type |-> "parent-child"])]
     ELSE withNode

\* _updateContextGraph(scope)
UpdateContextGraph(graph, fr, r) ==
  LET withNode == [graph EXCEPT !.nodes =
                     Append(@, [id |-> fr[r].id, type |-> "scope", data |-> r])]
  IN IF fr[r].parent # NoRef
     THEN [withNode EXCEPT !.edges =
             Append(@, [from |-> fr[fr[r].parent].id, to |-> fr[r].id,
                        type |-> "parent-child"])]
     ELSE withNode

\* mutant: the first frame of the stack, not the last
BottomOf(stack) == IF Len(stack) = 0 THEN NoRef ELSE stack[1]

\* this.scopeStack[this.scopeStack.length - 1] || null
TopOf(stack) == IF Len(stack) = 0 THEN NoRef ELSE stack[Len(stack)]

\* mutant: the parent is the bottom of the stack, not its top
ScopeInstanceRootParent(r, config, clock, stack) ==
  [id |-> GenerateScopeId(r), config |-> config, timestamp |-> clock,
   parent |-> IF Len(stack) = 0 THEN NoRef ELSE stack[1]]

\* mutant: every scope is built without a parent
ScopeInstanceNoParent(r, config, clock, stack) ==
  [id |-> GenerateScopeId(r), config |-> config, timestamp |-> clock,
   parent |-> NoRef]

\* the scope instance pushScope builds
ScopeInstance(r, config, clock, stack) ==
  [id |-> GenerateScopeId(r), config |-> config, timestamp |-> clock,
   parent |-> TopOf(stack)]

PushScope(config, maxFrames) ==
  /\ Len(frames) < maxFrames
  /\ LET r == Len(frames) + 1
         fr == Append(frames, ScopeInstance(r, config, now, scopeStack))
     IN /\ frames' = fr
        /\ scopeStack' = Append(scopeStack, r)
        /\ contextGraph' = UpdateContextGraph(contextGraph, fr, r)
        /\ last' = [NoOp EXCEPT !.op = "push", !.result = ScopeValue(r)]
  /\ UNCHANGED <<memoryStore, now, storeCalls>>
  /\ UNCHANGED serviceVars

\* mutant: the scope is taken from the bottom of the stack (shift, not pop)
PopScopeOldest ==
  IF Len(scopeStack) = 0
  THEN /\ last' = [NoOp EXCEPT !.op = "pop", !.error = TRUE,
                               !.message = "Cannot pop from empty scope stack"]
       /\ UNCHANGED <<memoryStore, scopeStack, contextGraph, frames, now, storeCalls>>
       /\ UNCHANGED serviceVars
  ELSE LET popped == scopeStack[1]
           archiveKey == ArchiveKey(frames[popped].id)
       IN /\ scopeStack' = SubSeq(scopeStack, 2, Len(scopeStack))
          /\ memoryStore' = StoreInto(memoryStore, frames, now, archiveKey,
                                      ScopeValue(popped), "archived", 0)
          /\ storeCalls' = [storeCalls EXCEPT ![archiveKey] = @ + 1]
          /\ last' = [NoOp EXCEPT !.op = "pop", !.key = archiveKey,
                                  !.tier = "archived", !.result = ScopeValue(popped)]
          /\ UNCHANGED <<contextGraph, frames, now>>
          /\ UNCHANGED serviceVars

\* mutant: the empty stack is noticed only after the archive entry is written
PopScopeCheckLate ==
  IF Len(scopeStack) = 0
  THEN /\ memoryStore' = StoreInto(memoryStore, frames, now, ArchiveKey(<<"undefined">>),
                                   NullValue, "archived", 0)
       /\ last' = [NoOp EXCEPT !.op = "pop", !.error = TRUE,
                               !.message = "Cannot pop from empty scope stack"]
       /\ UNCHANGED <<scopeStack, contextGraph, frames, now, storeCalls>>
       /\ UNCHANGED serviceVars
  ELSE LET popped == scopeStack[Len(scopeStack)]
           archiveKey == ArchiveKey(frames[popped].id)
       IN /\ scopeStack' = SubSeq(scopeStack, 1, Len(scopeStack) - 1)
          /\ memoryStore' = StoreInto(memoryStore, frames, now, archiveKey,
                                      ScopeValue(popped), "archived", 0)
          /\ storeCalls' = [storeCalls EXCEPT ![archiveKey] = @ + 1]
          /\ last' = [NoOp EXCEPT !.op = "pop", !.key = archiveKey,
                                  !.tier = "archived", !.result = ScopeValue(popped)]
          /\ UNCHANGED <<contextGraph, frames, now>>
          /\ UNCHANGED serviceVars

PopScope ==
  IF Len(scopeStack) = 0
  THEN /\ last' = [NoOp EXCEPT !.op = "pop", !.error = TRUE,
                               !.message = "Cannot pop from empty scope stack"]
       /\ UNCHANGED <<memoryStore, scopeStack, contextGraph, frames, now, storeCalls>>
       /\ UNCHANGED serviceVars
  ELSE LET popped == scopeStack[Len(scopeStack)]
           archiveKey == ArchiveKey(frames[popped].id)
       IN /\ scopeStack' = SubSeq(scopeStack, 1, Len(scopeStack) - 1)
          /\ memoryStore' = StoreInto(memoryStore, frames, now, archiveKey,
                                      ScopeValue(popped), "archived", 0)
          /\ storeCalls' = [storeCalls EXCEPT ![archiveKey] = @ + 1]
          /\ last' = [NoOp EXCEPT !.op = "pop", !.key = archiveKey,
                                  !.tier = "archived", !.result = ScopeValue(popped)]
          /\ UNCHANGED <<contextGraph, frames, now>>
          /\ UNCHANGED serviceVars

StoreContext(key, value, tierIn, sigIn, maxStores) ==
  /\ TotalStores < maxStores
  /\ LET tier == TierOption(tierIn)
     IN IF tier \notin Tiers
        THEN \* this.memoryStore[tier] is undefined: the assignment throws
             /\ last' = [NoOp EXCEPT !.op = "store", !.key = key, !.value = value,
                                     !.tier = tier, !.error = TRUE,
                                     !.message = "TypeError"]
             /\ UNCHANGED <<memoryStore, storeCalls>>
        ELSE LET stored == StoreInto(memoryStore, frames, now, key, value, tier, sigIn)
             IN /\ memoryStore' = stored
                /\ storeCalls' = [storeCalls EXCEPT ![key] = @ + 1]
                /\ last' = [NoOp EXCEPT !.op = "store", !.key = key, !.value = value,
                              !.tier = tier,
                              !.shadowed = Shadowed(memoryStore, key, tier),
                              !.held = \E t \in Tiers : HasKey(memoryStore[t], key),
                              !.duplicate = Duplicated(memoryStore, frames, key, value, tier),
                              !.landed = Landed(stored, key, value, tier, sigIn, now),
                              !.prev = IF last.op = "store" /\ ~last.error
                                       THEN [key |-> last.key, value |-> last.value,
                                             tier |-> last.tier, held |-> last.held,
                                             duplicate |-> last.duplicate]
                                       ELSE NoPrev]
  /\ UNCHANGED <<scopeStack, contextGraph, frames, now>>
  /\ UNCHANGED serviceVars

\* the call follows a storeContext of the same key with only retrieveContext
\* calls of that key in between
ContinuesRun(key) ==
  /\ last.op \in {"store", "retrieve"}
  /\ ~last.error
  /\ last.tier # ""
  /\ last.key = key

\* this.memoryStore.hot[key] is an inherited member of Object.prototype: it is
\* truthy and has no metadata, so entry.metadata.accessCount++ throws
InheritedHit(ms, key) ==
  /\ key \in ObjectPrototypeKeys
  /\ ~HasKey(ms["hot"], key)

RetrieveContext(key, maxAccess) ==
  LET tier == FirstTierWith(memoryStore, key)
  IN /\ IF InheritedHit(memoryStore, key)
        THEN /\ last' = [NoOp EXCEPT !.op = "retrieve", !.key = key, !.error = TRUE,
                                     !.message = "TypeError"]
             /\ UNCHANGED memoryStore
        ELSE IF tier = ""
        THEN /\ ContinuesRun(key) => last.run < maxAccess
             /\ last' = IF ContinuesRun(key)
                           THEN [last EXCEPT !.op = "retrieve", !.result = NullValue,
                                             !.run = @ + 1]
                           ELSE [NoOp EXCEPT !.op = "retrieve", !.key = key]
             /\ UNCHANGED memoryStore
        ELSE LET entry == GetKey(memoryStore[tier], key)
             IN /\ entry.accessCount < maxAccess
                /\ memoryStore' = RetrieveFrom(memoryStore, key, tier, now)
                /\ last' = IF ContinuesRun(key)
                           THEN [last EXCEPT !.op = "retrieve", !.result = entry.value,
                                             !.run = @ + 1]
                           ELSE [NoOp EXCEPT !.op = "retrieve", !.key = key,
                                             !.result = entry.value]
     /\ UNCHANGED <<scopeStack, contextGraph, frames, now, storeCalls>>
     /\ UNCHANGED serviceVars

GetCurrentScope ==
  /\ last' = [NoOp EXCEPT !.op = "getCurrentScope",
                          !.result = IF TopOf(scopeStack) = NoRef THEN NullValue
                                     ELSE ScopeValue(TopOf(scopeStack))]
  /\ UNCHANGED <<memoryStore, scopeStack, contextGraph, frames, now, storeCalls>>
  /\ UNCHANGED serviceVars

SearchContexts(typeIn, term) ==
  /\ last' = [NoOp EXCEPT !.op = "search", !.key = term, !.searchType = typeIn,
                          !.results = SearchResults(memoryStore, contextGraph, frames,
                                                    typeIn, term)]
  /\ UNCHANGED <<memoryStore, scopeStack, contextGraph, frames, now, storeCalls>>
  /\ UNCHANGED serviceVars

\* _initializeData(shape): shape.reduce((a, b) => a * b, 1) zeros
RECURSIVE ShapeSize(_, _)
ShapeSize(shape, i) == IF i > Len(shape) THEN 1 ELSE shape[i] * ShapeSize(shape, i + 1)

InitializeData(shape) == [i \in 1..ShapeSize(shape, 1) |-> 0]

\* TensorLogicService.initTensor(name, shape, data = null); data <<>> stands
\* for null
InitTensor(registry, name, shape, data, clock) ==
  SetKey(registry, [key |-> name, shape |-> shape,
                    data |-> IF data = <<>> THEN InitializeData(shape) ELSE data,
                    created |-> clock, type |-> "tensor"])

\* this.scope.org?.id || this.scope.project?.id || 'global'
CurrentScopeId(orgNow, projectNow) ==
  IF ~Falsy(orgNow) /\ orgNow.id # "" THEN orgNow.id
  ELSE IF ~Falsy(projectNow) /\ projectNow.id # "" THEN projectNow.id
  ELSE "global"

\* ATenSpaceService.defineBoundary(name, config)
DefineBoundary(bnds, name, type, domain, constraints, orgNow, projectNow, clock) ==
  SetKey(bnds, [key |-> name, type |-> type, constraints |-> constraints,
                domain |-> domain, created |-> clock,
                scopeId |-> CurrentScopeId(orgNow, projectNow)])

\* mutant: the tensor is registered under the bare id of the model
TensorNameBare(m) == <<m.id>>

\* mutant: one boundary per scope
BoundaryNamePerScope(m) == <<"boundary_", m.type, "_", m.id>>

\* the names mapScopeToDomain builds
DomainName(m) == <<"domain_", m.type, "_", m.id>>
BoundaryName(m) == <<"boundary_", m.type>>
TensorName(m) == <<"scope_", m.id>>

\* the space createSpace builds for mapScopeToDomain
DomainSpace(m, orgNow, projectNow, clock) ==
  [key |-> DomainName(m), boundary |-> BoundaryName(m),
   tensorSpace |-> DomainName(m) \o <<"_tensor">>,
   dimensions |-> IF m.isProject THEN 3 ELSE IF m.isOrg THEN 2 ELSE 1,
   operations |-> <<>>, created |-> clock,
   scopeId |-> CurrentScopeId(orgNow, projectNow)]

\* the body of initializeScopeFrameworks for a model that is given: initTensor,
\* pushScope, mapScopeToDomain (defineBoundary, createSpace with its initTensor
\* and _addToAtomSpace); orgNow and projectNow are the service's fields then
ScopeFrameworks(m, orgNow, projectNow) ==
  LET r == Len(frames) + 1
      config == [scopeId |-> m.id, scopeType |-> m.type, scopeModel |-> m]
      fr == Append(frames, ScopeInstance(r, config, now, scopeStack))
      space == DomainSpace(m, orgNow, projectNow, now)
  IN /\ tensorRegistry' =
          InitTensor(InitTensor(tensorRegistry, TensorName(m), <<1, 1>>, <<>>, now),
                     space.tensorSpace, <<1, 1>>, <<>>, now)
     /\ frames' = fr
     /\ scopeStack' = Append(scopeStack, r)
     /\ contextGraph' = UpdateContextGraph(contextGraph, fr, r)
     /\ boundaries' =
          DefineBoundary(boundaries, BoundaryName(m),
                         IF m.isGlobal THEN "periodic" ELSE "dirichlet", m,
                         [scopeType |-> m.type, scopeId |-> m.id],
                         orgNow, projectNow, now)
     /\ spaceRegistry' = SetKey(spaceRegistry, space)
     /\ atomSpace' = [atomSpace EXCEPT !.atoms =
                        Append(@, [id |-> <<"atom_">> \o space.key, type |-> "space",
                                   data |-> space.key, timestamp |-> now])]

FrameworkVars == <<tensorRegistry, frames, scopeStack, contextGraph, boundaries,
                   spaceRegistry, atomSpace>>

\* ScopeService.initializeScopeFrameworks(scopeModel)
InitializeScopeFrameworks(m, maxFrames) ==
  /\ IF Falsy(m)
     THEN UNCHANGED FrameworkVars
     ELSE Len(frames) < maxFrames /\ ScopeFrameworks(m, org, project)
  /\ last' = [NoOp EXCEPT !.op = "initializeScopeFrameworks", !.model = m]
  /\ UNCHANGED <<memoryStore, now, storeCalls, org, project>>

\* mutant: the frameworks are initialized for the first org selected only
SetOrgOnce(m, maxFrames) ==
  /\ org' = m
  /\ IF Falsy(m) \/ ~Falsy(org)
     THEN UNCHANGED FrameworkVars
     ELSE Len(frames) < maxFrames /\ ScopeFrameworks(m, m, project)
  /\ last' = [NoOp EXCEPT !.op = "setOrg", !.model = m]
  /\ UNCHANGED <<memoryStore, now, storeCalls, project>>

\* ScopeService.setOrg(orgModel)
SetOrg(m, maxFrames) ==
  /\ org' = m
  /\ IF Falsy(m)
     THEN UNCHANGED FrameworkVars
     ELSE Len(frames) < maxFrames /\ ScopeFrameworks(m, m, project)
  /\ last' = [NoOp EXCEPT !.op = "setOrg", !.model = m]
  /\ UNCHANGED <<memoryStore, now, storeCalls, project>>

\* ScopeService.setProject(projectModel)
SetProject(m, maxFrames) ==
  /\ project' = m
  /\ IF Falsy(m)
     THEN UNCHANGED FrameworkVars
     ELSE Len(frames) < maxFrames /\ ScopeFrameworks(m, org, m)
  /\ last' = [NoOp EXCEPT !.op = "setProject", !.model = m]
  /\ UNCHANGED <<memoryStore, now, storeCalls, org>>

\* this.spaceRegistry[spaceName] is an inherited member of Object.prototype: it
\* is truthy and has no operations array, so space.operations.push throws
InheritedSpace(registry, spaceName) ==
  /\ spaceName \in ObjectPrototypeKeys
  /\ ~HasKey(registry, spaceName)

\* ATenSpaceService.executeInSpace(spaceName, operation, params = {})
ExecuteInSpace(spaceName, operation, maxOps) ==
  /\ IF HasKey(spaceRegistry, spaceName)
     THEN LET space == GetKey(spaceRegistry, spaceName)
              result == [space |-> spaceName, operation |-> operation,
                         timestamp |-> now]
          IN /\ Len(space.operations) < maxOps
             /\ spaceRegistry' = SetKey(spaceRegistry,
                                        [space EXCEPT !.operations = Append(@, result)])
             /\ last' = [NoOp EXCEPT !.op = "executeInSpace", !.key = spaceName]
     ELSE /\ last' = [NoOp EXCEPT !.op = "executeInSpace", !.key = spaceName,
                                  !.error = TRUE,
                                  !.message = IF InheritedSpace(spaceRegistry, spaceName)
                                              THEN "TypeError"
                                              ELSE "Space not found"]
          /\ UNCHANGED spaceRegistry
  /\ UNCHANGED <<memoryStore, scopeStack, contextGraph, frames, now, storeCalls,
                 org, project, tensorRegistry, boundaries, atomSpace>>

\* time passes between calls
TickHours == AgeLimitHours + 1

Advance(maxTicks) ==
  /\ now + TickHours <= maxTicks * TickHours
  /\ now' = now + TickHours
  /\ last' = [NoOp EXCEPT !.op = "tick"]
  /\ UNCHANGED <<memoryStore, scopeStack, contextGraph, frames, storeCalls>>
  /\ UNCHANGED serviceVars

\* time passes in steps of half the age limit
HalfDay == AgeLimitHours \div 2

AdvanceHalfDay(maxHalfDays) ==
  /\ now + HalfDay <= maxHalfDays * HalfDay
  /\ now' = now + HalfDay
  /\ last' = [NoOp EXCEPT !.op = "tick"]
  /\ UNCHANGED <<memoryStore, scopeStack, contextGraph, frames, storeCalls>>
  /\ UNCHANGED serviceVars

Store == \E key \in UserKeys, value \in Values, tierIn \in TierInputs,
            sigIn \in SignificanceInputs :
           StoreContext(key, value, tierIn, sigIn, MaxStores)

Retrieve == \E key \in UserKeys : RetrieveContext(key, MaxAccess)

Tick == Advance(MaxTicks)

Next == Store \/ Retrieve \/ Tick

Spec == Init /\ [][Next]_vars

\* the same calls of storeContext, and retrieveContext called with any key
RetrieveAny ==
  \E key \in UserKeys \cup ObjectPrototypeKeys : RetrieveContext(key, MaxAccess)

NextInputs == Store \/ RetrieveAny

SpecInputs == Init /\ [][NextInputs]_vars

\* three keys stored up to three times in all, no scopes
StoreDedup == \E key \in DedupKeys, value \in DedupValues, tierIn \in DedupTierInputs :
                StoreContext(key, value, tierIn, 0, DedupStores)

NextDedup == StoreDedup

SpecDedup == Init /\ [][NextDedup]_vars

\* three scopes pushed and popped around one stored key
StoreScope == StoreContext(<<"k", "1">>, PrimValue("a"), "", 0, ScopeStores)

RetrieveScope ==
  \E key \in {<<"k", "1">>} \cup {ArchiveKey(GenerateScopeId(r)) : r \in 1..ScopeFrames} :
    RetrieveContext(key, ScopeAccess)

PushNested == \E config \in Configs : PushScope(config, ScopeFrames)

Pop == PopScope

NextScope == StoreScope \/ RetrieveScope \/ PushNested \/ Pop

SpecScope == Init /\ [][NextScope]_vars

\* one key stored into hot, cold or archived and retrieved often enough to
\* climb two tiers, around one scope
StoreDeep == \E key \in DeepKeys, value \in DeepValues, tierIn \in DeepTierInputs :
               StoreContext(key, value, tierIn, 0, DeepStores)

RetrieveDeep == \E key \in DeepKeys : RetrieveContext(key, DeepAccess)

PushDeep == PushScope(<<"parent">>, DeepFrames)

TickDeep == Advance(DeepTicks)

NextDeep == StoreDeep \/ RetrieveDeep \/ PushDeep \/ Pop \/ TickDeep

SpecDeep == Init /\ [][NextDeep]_vars

\* scopes pushed and popped, a caller storing a value of its own under the
\* archive key of a scope still on the stack, and retrievals by archive key
StoreUnderArchiveKey ==
  \E r \in 1..Len(frames), value \in DeepValues, tierIn \in DeepTierInputs :
    /\ storeCalls[ArchiveKey(frames[r].id)] = 0
    /\ StoreContext(ArchiveKey(frames[r].id), value, tierIn, 0, ArchFrames)

RetrieveArchived ==
  \E r \in 1..Len(frames) : RetrieveContext(ArchiveKey(frames[r].id), ArchAccess)

PushArch == PushScope(<<"parent">>, ArchFrames)

NextArchive == StoreUnderArchiveKey \/ RetrieveArchived \/ PushArch \/ Pop

SpecArchive == Init /\ [][NextArchive]_vars

\* two keys stored into hot, cold and archived, a day apart or not, and searched
\* chronologically
StoreSearch == \E key \in UserKeys, value \in Values, tierIn \in DeepTierInputs :
                 StoreContext(key, value, tierIn, 0, SearchStores)

TickSearch == Advance(SearchTicks)

SearchChronological ==
  \E typeIn \in {"", "chronological"}, term \in Terms : SearchContexts(typeIn, term)

NextSearch == StoreSearch \/ TickSearch \/ SearchChronological

SpecSearch == Init /\ [][NextSearch]_vars

\* scopes pushed and popped around one stored and retrieved key, searches of
\* every type and the current scope asked for
SearchAny ==
  \E typeIn \in SearchTypeInputs, term \in GraphTerms : SearchContexts(typeIn, term)

PushGraph == \E config \in GraphConfigs : PushScope(config, GraphFrames)

RetrieveGraph == \E key \in DeepKeys : RetrieveContext(key, GraphAccess)

NextGraph ==
  StoreScope \/ RetrieveGraph \/ SearchAny \/ PushGraph \/ Pop \/ GetCurrentScope

SpecGraph == Init /\ [][NextGraph]_vars

\* the scope service called with scope models and with none, a day apart or
\* not, and scopes popped behind its back
Initialize == \E m \in ModelInputs : InitializeScopeFrameworks(m, ServiceFrames)

SelectOrg == \E m \in ModelInputs : SetOrg(m, ServiceFrames)

SelectProject == \E m \in ModelInputs : SetProject(m, ServiceFrames)

TickService == Advance(ServiceTicks)

NextService == Initialize \/ SelectOrg \/ SelectProject \/ Pop \/ TickService

SpecService == Init /\ [][NextService]_vars

\* spaces made for an org and a project, and operations executed in spaces
\* by name, registered or not
InitializeSpace == \E m \in ModelInputs : InitializeScopeFrameworks(m, SpaceFrames)

Execute == \E spaceName \in SpaceNames, operation \in Operations :
             ExecuteInSpace(spaceName, operation, SpaceOps)

NextSpace == InitializeSpace \/ Execute

SpecSpace == Init /\ [][NextSpace]_vars

\* two keys stored into hot and warm, one of them retrieved up to five times,
\* half a day apart or not
StoreDemote == \E key \in UserKeys, value \in Values, tierIn \in DemoteTierInputs :
                 StoreContext(key, value, tierIn, 0, DemoteStores)

RetrieveDemote == \E key \in DeepKeys : RetrieveContext(key, DemoteAccess)

TickDemote == AdvanceHalfDay(DemoteHalfDays)

NextDemote == StoreDemote \/ RetrieveDemote \/ TickDemote

SpecDemote == Init /\ [][NextDemote]_vars

\* three keys stored into hot and archived with values that serialize
\* alike or not, one of them retrieved until it leaves archived for cold
StoreSurvive == \E key \in DedupKeys, value \in Values, tierIn \in CrossTierInputs :
                  StoreContext(key, value, tierIn, 0, SurviveStores)

RetrieveSurvive == \E key \in DeepKeys : RetrieveContext(key, SurviveAccess)

NextSurvive == StoreSurvive \/ RetrieveSurvive

SpecSurvive == Init /\ [][NextSurvive]_vars

\* two keys stored into hot and archived with values that serialize alike or
\* not, one of them retrieved until it leaves archived for cold, around one
\* scope
StoreUnique == \E key \in UserKeys, value \in Values, tierIn \in CrossTierInputs :
                 StoreContext(key, value, tierIn, 0, UniqueStores)

RetrieveUnique == \E key \in DeepKeys : RetrieveContext(key, UniqueAccess)

PushUnique == PushScope(<<"parent">>, UniqueFrames)

NextUnique == StoreUnique \/ RetrieveUnique \/ PushUnique \/ Pop

SpecUnique == Init /\ [][NextUnique]_vars

\* two keys stored into hot and archived with one value, one of them
\* retrieved, a day apart or not, around one scope
StoreKept == \E key \in UserKeys, value \in DeepValues, tierIn \in CrossTierInputs :
               StoreContext(key, value, tierIn, 0, KeptStores)

RetrieveKept == \E key \in DeepKeys : RetrieveContext(key, KeptAccess)

TickKept == Advance(KeptTicks)

PushKept == PushScope(<<"parent">>, KeptFrames)

NextKept == StoreKept \/ RetrieveKept \/ TickKept \/ PushKept \/ Pop

SpecKept == Init /\ [][NextKept]_vars

\* orgs and projects selected and deselected through the scope service,
\* nothing else called
SelectAnyOrg == \E m \in SelectInputs : SetOrg(m, SelectFrames)

SelectAnyProject == \E m \in SelectInputs : SetProject(m, SelectFrames)

NextSelect == SelectAnyOrg \/ SelectAnyProject

SpecSelect == Init /\ [][NextSelect]_vars

\* two keys stored twice in all into hot, warm and cold, with values that
\* serialize alike or not, retrieved in between, a day apart or not
StoreOver == \E key \in UserKeys, value \in DedupValues, tierIn \in OverTierInputs :
               StoreContext(key, value, tierIn, 0, OverStores)

RetrieveOver == \E key \in UserKeys : RetrieveContext(key, OverAccess)

TickOver == Advance(OverTicks)

NextOver == StoreOver \/ RetrieveOver \/ TickOver

SpecOver == Init /\ [][NextOver]_vars

\* one key stored into any tier named and retrieved often enough to climb from
\* archived to hot, a day apart or not, no scopes
StoreClimb == \E key \in DeepKeys, value \in DeepValues, tierIn \in ClimbTierInputs :
                StoreContext(key, value, tierIn, 0, ClimbStores)

RetrieveClimb == \E key \in DeepKeys : RetrieveContext(key, ClimbAccess)

TickClimb == Advance(ClimbTicks)

NextClimb == StoreClimb \/ RetrieveClimb \/ TickClimb

SpecClimb == Init /\ [][NextClimb]_vars

\* one key stored twice, into hot or archived, around one scope
StoreCross == \E key \in DeepKeys, value \in DeepValues, tierIn \in CrossTierInputs :
                StoreContext(key, value, tierIn, 0, CrossStores)

RetrieveCross == \E key \in DeepKeys : RetrieveContext(key, CrossAccess)

PushCross == PushScope(<<"parent">>, CrossFrames)

TickCross == Advance(CrossTicks)

NextCross == StoreCross \/ RetrieveCross \/ PushCross \/ Pop \/ TickCross

SpecCross == Init /\ [][NextCross]_vars

----------------------------------------------------------------------------
(* Properties *)

K1 == <<"k", "1">>
K2 == <<"k", "2">>

TiersOf(ms, key) == {t \in Tiers : HasKey(ms[t], key)}

\* the keys present in some tier
KeysOf(ms) == UNION {{ms[t][i].key : i \in 1..Len(ms[t])} : t \in Tiers}

Resolvable(ms, key) == FirstTierWith(ms, key) # ""

\* the last call is the n-th retrieveContext in a row of a key just stored
AfterStoreAndRetrieves(n) ==
  /\ last.op = "retrieve"
  /\ last.tier # ""
  /\ last.run = n

\* C1 as stated: whatever the store held, a retrieveContext(k) directly after
\* storeContext(k, v, {tier: t}) returns v.
C1_AnyStore ==
  AfterStoreAndRetrieves(1) => last.result = last.value

\* C1, amended: a retrieveContext(k) directly after storeContext(k, v, {tier: t})
\* returns v, provided that just before the storeContext no tier scanned before
\* t held k and, when t is not archived, no other entry of hot, warm or cold
\* had a value serializing as v does.
C1_StoreThenRetrieve ==
  ( /\ AfterStoreAndRetrieves(1)
    /\ ~last.shadowed
    /\ (last.tier = "archived" \/ ~last.duplicate) )
  => last.result = last.value

C1_Witness ==
  /\ AfterStoreAndRetrieves(1)
  /\ ~last.shadowed
  /\ last.tier = "cold"
  /\ ~last.duplicate
  /\ last.value = PrimValue("NaN")
  /\ last.result = PrimValue("NaN")
  /\ HasKey(memoryStore["archived"], last.key)

\* C2: a key passed to storeContext exactly once is, in every state reached
\* afterwards, present in at most one of the four tiers.
C2_StoredOnceOneTier ==
  \A k \in KeysOf(memoryStore) :
    storeCalls[k] = 1 => Cardinality(TiersOf(memoryStore, k)) <= 1

C2_Witness ==
  /\ storeCalls[K1] = 1
  /\ TiersOf(memoryStore, K1) = {"warm"}
  /\ GetKey(memoryStore["warm"], K1).accessCount = PromoteAccessAbove + 1
  /\ Len(memoryStore["archived"]) = 1

\* C3 as stated: in every reachable state each key is present in at most one
\* of the tiers hot, warm, cold, archived.
C3_Exclusive ==
  \A k \in KeysOf(memoryStore) : Cardinality(TiersOf(memoryStore, k)) <= 1

\* the step is a storeContext (a caller's, or popScope's) into a tier while
\* another tier holds an entry under the same key
CrossTierStore ==
  /\ last'.op \in {"store", "pop"}
  /\ ~last'.error
  /\ \E t \in Tiers \ {last'.tier} : HasKey(memoryStore[t], last'.key)

\* C3, amended: tier exclusivity is kept by every call except a storeContext
\* that targets a tier while another tier holds the same key; so each key is in
\* at most one tier as long as no such storeContext has been made.
C3_ExclusiveUnlessCrossTierStore ==
  [][(C3_Exclusive /\ ~CrossTierStore) => C3_Exclusive']_vars

\* a key stored twice into archived, then promoted to cold next to an archived
\* scope
C3_Witness ==
  /\ storeCalls[K1] = 2
  /\ C3_Exclusive
  /\ TiersOf(memoryStore, K1) = {"cold"}
  /\ GetKey(memoryStore["cold"], K1).accessCount = PromoteAccessAbove + 1
  /\ Len(memoryStore["archived"]) = 1

\* the last call is a storeContext of an entry into tier that a retrieveContext
\* finds, or the n-th retrieveContext in a row of that entry
StoredThenRetrieved(tier, n) ==
  /\ last.op \in {"store", "retrieve"}
  /\ ~last.error
  /\ last.tier = tier
  /\ last.landed
  /\ last.run = n

\* C4: an entry stored in cold and then retrieved n times in a row is still in
\* cold (and nowhere above) with accessCount n for every n up to 10, and is in
\* warm and absent from cold after the 11th retrieval.
C4_PromotedAtEleven ==
  /\ \A n \in 0..PromoteAccessAbove :
       StoredThenRetrieved("cold", n) =>
         /\ FirstTierWith(memoryStore, last.key) = "cold"
         /\ GetKey(memoryStore["cold"], last.key).accessCount = n
  /\ StoredThenRetrieved("cold", PromoteAccessAbove + 1) =>
       /\ FirstTierWith(memoryStore, last.key) = "warm"
       /\ GetKey(memoryStore["warm"], last.key).accessCount = PromoteAccessAbove + 1
       /\ ~HasKey(memoryStore["cold"], last.key)

C4_Witness ==
  /\ StoredThenRetrieved("cold", PromoteAccessAbove + 1)
  /\ HasKey(memoryStore["warm"], last.key)
  /\ ~HasKey(memoryStore["cold"], last.key)

\* C5 as stated: an entry stored in cold and then retrieved 12 times in a row
\* is present in warm and absent from cold.
C5_WarmAfterTwelve ==
  StoredThenRetrieved("cold", PromoteAccessAbove + 2) =>
    /\ HasKey(memoryStore["warm"], last.key)
    /\ ~HasKey(memoryStore["cold"], last.key)

\* the tier one step above t in tierOrder (t itself for hot)
TierAbove(t) ==
  IF TierIndex(t) < Len(tierOrder) THEN tierOrder[TierIndex(t) + 1] ELSE t

\* C6: a retrieveContext call puts an entry into a tier that did not hold its
\* key only for the retrieved key, and only into the tier one step above the
\* tier the key was found in; that entry is the one found, with its
\* accessCount raised by one.
C6_OneStepPerRetrieve ==
  [][last'.op = "retrieve" =>
       \A k \in KeysOf(memoryStore') : \A t2 \in TiersOf(memoryStore', k) \ TiersOf(memoryStore, k) :
         LET found == FirstTierWith(memoryStore, k)
         IN /\ k = last'.key
            /\ found # ""
            /\ TierIndex(t2) = TierIndex(found) + 1
            /\ GetKey(memoryStore'[t2], k).accessCount =
                 GetKey(memoryStore[found], k).accessCount + 1
            /\ ~HasKey(memoryStore'[found], k)]_vars

C6_Witness ==
  /\ StoredThenRetrieved("archived", PromoteAccessAbove + 2)
  /\ TiersOf(memoryStore, last.key) = {"warm"}
  /\ GetKey(memoryStore["warm"], last.key).accessCount = PromoteAccessAbove + 2

\* in this step the entry under k left tier t1 and arrived in the lower tier t2
MovedDown(k, t1, t2) ==
  /\ TierIndex(t2) < TierIndex(t1)
  /\ HasKey(memoryStore[t1], k)
  /\ ~HasKey(memoryStore'[t1], k)
  /\ HasKey(memoryStore'[t2], k)
  /\ GetKey(memoryStore'[t2], k) = GetKey(memoryStore[t1], k)
  /\ HasKey(memoryStore[t2], k) => GetKey(memoryStore[t2], k) # GetKey(memoryStore'[t2], k)

\* C7: after a retrieveContext call every entry is in the tier it was in or,
\* for the entry found, one step above; an entry moves to a lower tier only
\* from hot to warm, and only in a storeContext made by a caller or by popScope.
C7_RetrieveNeverDemotes ==
  [][\A t \in Tiers : \A i \in 1..Len(memoryStore[t]) :
       LET k == memoryStore[t][i].key
       IN ~HasKey(memoryStore'[t], k) =>
            /\ last'.op = "retrieve" =>
                 /\ k = last'.key
                 /\ t = FirstTierWith(memoryStore, k)
                 /\ HasKey(memoryStore'[TierAbove(t)], k)
            /\ \A t2 \in Tiers :
                 MovedDown(k, t, t2) =>
                   /\ t = "hot"
                   /\ t2 = "warm"
                   /\ last'.op \in {"store", "pop"}]_vars

\* a retrieveContext has just found a hot entry that the maintenance pass would
\* move to warm (over a day old, accessed fewer than 5 times) and left it in hot
C7_Witness ==
  /\ last.op = "retrieve"
  /\ HasKey(memoryStore["hot"], last.key)
  /\ GetKey(memoryStore["hot"], last.key).timestamp + AgeLimitHours < now
  /\ GetKey(memoryStore["hot"], last.key).lastAccessed = now
  /\ GetKey(memoryStore["hot"], last.key).accessCount < DemoteAccessBelow
  /\ Len(memoryStore["archived"]) > 0

\* the last two calls were storeContext calls of two different keys with
\* values that serialize alike
TwoAlikeStoresInARow ==
  /\ last.op = "store"
  /\ ~last.error
  /\ last.prev.tier # ""
  /\ last.prev.key # last.key
  /\ JSONStringify(frames, last.prev.value) = JSONStringify(frames, last.value)

\* exactly one of the two keys resolves when both went to hot, warm or cold;
\* both resolve when one of them went to archived
OneSurvivesUnlessArchived ==
  IF last.tier # "archived" /\ last.prev.tier # "archived"
  THEN Resolvable(memoryStore, last.key) # Resolvable(memoryStore, last.prev.key)
  ELSE Resolvable(memoryStore, last.key) /\ Resolvable(memoryStore, last.prev.key)

\* C8 as stated: after two different keys are stored with values whose
\* serializations are equal, exactly one of them is resolvable when both went
\* to hot, warm or cold, and both are when one went to archived.
C8_AnyStore ==
  TwoAlikeStoresInARow => OneSurvivesUnlessArchived

\* C8, amended: the same, for two storeContext calls made one directly after
\* the other into a store that held neither key in any tier and held no entry
\* of hot, warm or cold with a value of that serialization.
C8_DedupKeepsOne ==
  ( /\ TwoAlikeStoresInARow
    /\ ~last.prev.held
    /\ ~last.held
    /\ ~last.prev.duplicate )
  => OneSurvivesUnlessArchived

C8_Witness ==
  /\ TwoAlikeStoresInARow
  /\ ~last.prev.held
  /\ ~last.held
  /\ ~last.prev.duplicate
  /\ last.tier = "cold"
  /\ last.prev.tier = "hot"
  /\ last.value # last.prev.value
  /\ Resolvable(memoryStore, last.prev.key)
  /\ ~Resolvable(memoryStore, last.key)
  /\ Len(memoryStore["cold"]) = 1

\* the scope instances pushed and not yet popped (popScope stores each popped
\* scope once under its archive key)
NotYetPopped ==
  {r \in 1..Len(frames) : storeCalls[ArchiveKey(frames[r].id)] = 0}

Max(S) == CHOOSE x \in S : \A y \in S : y <= x

\* C9: every successful popScope returns the most recently pushed scope not
\* yet popped and leaves the stack as it was without its last element; the
\* scopes not yet popped are exactly those on the stack, in push order.
C9_LIFO ==
  [][(last'.op = "pop" /\ ~last'.error) =>
       /\ NotYetPopped # {}
       /\ last'.result = ScopeValue(Max(NotYetPopped))
       /\ scopeStack' = SubSeq(scopeStack, 1, Len(scopeStack) - 1)
       /\ NotYetPopped' = NotYetPopped \ {Max(NotYetPopped)}
       /\ {scopeStack'[i] : i \in 1..Len(scopeStack')} = NotYetPopped'
       /\ \A i, j \in 1..Len(scopeStack') : i < j => scopeStack'[i] < scopeStack'[j]]_vars

\* three pushes then three pops: the last scope returned is the first pushed
C9_Witness ==
  /\ Len(frames) = 3
  /\ frames[3].parent = 2
  /\ frames[2].parent = 1
  /\ scopeStack = <<>>
  /\ last.op = "pop"
  /\ last.result = ScopeValue(1)

\* C10: a scope's parent is the scope on top of the stack just before its
\* pushScope (none on an empty stack), and no later call changes the parent
\* of any scope, on the stack or popped.
C10_ParentFixed ==
  [][/\ \A r \in 1..Len(frames) :
          /\ Len(frames') >= Len(frames)
          /\ frames'[r].parent = frames[r].parent
     /\ last'.op = "push" =>
          /\ Len(frames') = Len(frames) + 1
          /\ frames'[Len(frames')].parent = TopOf(scopeStack)
          /\ last'.result = ScopeValue(Len(frames'))
          /\ TopOf(scopeStack') = Len(frames')]_vars

\* a third scope pushed on top of the first after the second was popped, the
\* second still naming the first as its parent from the archived tier
C10_Witness ==
  /\ Len(frames) = 3
  /\ scopeStack = <<1, 3>>
  /\ frames[3].parent = 1
  /\ frames[2].parent = 1
  /\ frames[1].parent = NoRef
  /\ HasKey(memoryStore["archived"], ArchiveKey(frames[2].id))
  /\ GetKey(memoryStore["archived"], ArchiveKey(frames[2].id)).value = ScopeValue(2)
  /\ last.op = "push"

\* the last call was a successful popScope and this one is a retrieveContext of
\* the key it archived its scope under
RetrieveAfterPop ==
  /\ last.op = "pop"
  /\ ~last.error
  /\ last'.op = "retrieve"
  /\ last'.key = last.key

\* a successful popScope returns the top scope F and leaves archived holding an
\* entry under "scope_" + F.id whose value is F
PopArchives ==
  (last'.op = "pop" /\ ~last'.error) =>
    LET F == scopeStack[Len(scopeStack)]
        key == <<"scope_">> \o frames[F].id
    IN /\ last'.result = ScopeValue(F)
       /\ HasKey(memoryStore'["archived"], key)
       /\ GetKey(memoryStore'["archived"], key).value = ScopeValue(F)

\* C11 as stated: after a successful popScope returning F the archived tier
\* holds an entry under "scope_" + F.id whose value is F, and a retrieveContext
\* of that key made directly afterwards returns F.
C11_PopThenRetrieve ==
  [][/\ PopArchives
     /\ RetrieveAfterPop => (~last'.error /\ last'.result = last.result)]_vars

\* C11, amended: the archived tier holds the entry, and the retrieveContext
\* returns F provided none of hot, warm and cold holds an entry under that key.
C11_PopArchivesScope ==
  [][/\ PopArchives
     /\ ( /\ RetrieveAfterPop
          /\ \A t \in {"hot", "warm", "cold"} : ~HasKey(memoryStore[t], last.key) )
        => (~last'.error /\ last'.result = last.result)]_vars

\* the second scope, popped while the first is still on the stack, has just
\* been retrieved by its archive key and found in archived
C11_Witness ==
  /\ Len(frames) = 2
  /\ last.op = "retrieve"
  /\ last.key = <<"scope_">> \o frames[2].id
  /\ last.result = ScopeValue(2)
  /\ scopeStack = <<1>>
  /\ FirstTierWith(memoryStore, last.key) = "archived"
  /\ GetKey(memoryStore["archived"], last.key).accessCount = 1
  /\ GetKey(memoryStore["archived"], last.key).value = ScopeValue(2)

\* C12: popScope on an empty stack fails with an error and changes neither the
\* stack nor any of the four tiers nor the graph; on a stack that is not empty
\* it does not fail.
C12_EmptyPopFails ==
  [][last'.op = "pop" =>
       IF scopeStack = <<>>
       THEN /\ last'.error
            /\ scopeStack' = scopeStack
            /\ \A t \in Tiers : memoryStore'[t] = memoryStore[t]
            /\ contextGraph' = contextGraph
            /\ frames' = frames
       ELSE ~last'.error]_vars

\* a popScope has just failed on a stack emptied by earlier pops, with scopes
\* in archived, a stored entry and a graph of three nodes
C12_Witness ==
  /\ last.op = "pop"
  /\ last.error
  /\ scopeStack = <<>>
  /\ Len(memoryStore["archived"]) = 3
  /\ Len(memoryStore["hot"]) = 1
  /\ Len(contextGraph.nodes) = 3
  /\ Len(contextGraph.edges) = 2

\* C13: between calls the graph has one node per pushScope call made so far and
\* one edge per pushScope call made on a stack that was not empty; such a call
\* adds exactly one edge, from the id of the scope then on top to the id of the
\* scope pushed, a call on an empty stack adds none, and no other call adds a
\* node or an edge.
C13_GraphCounts ==
  /\ [](/\ Len(contextGraph.nodes) = Len(frames)
        /\ Len(contextGraph.edges) =
             Cardinality({r \in 1..Len(frames) : frames[r].parent # NoRef}))
  /\ [][IF last'.op = "push"
        THEN LET r == Len(frames')
             IN /\ r = Len(frames) + 1
                /\ contextGraph'.nodes =
                     Append(contextGraph.nodes,
                            [id |-> frames'[r].id, type |-> "scope", data |-> r])
                /\ contextGraph'.edges =
                     IF scopeStack # <<>>
                     THEN Append(contextGraph.edges,
                                 [from |-> frames[scopeStack[Len(scopeStack)]].id,
                                  to |-> frames'[r].id, type |-> "parent-child"])
                     ELSE contextGraph.edges
        ELSE contextGraph' = contextGraph]_vars

\* three pushes, the second on a stack emptied by a pop: three nodes, one edge
C13_Witness ==
  /\ Len(frames) = 3
  /\ frames[2].parent = NoRef
  /\ scopeStack = <<2, 3>>
  /\ Len(contextGraph.nodes) = 3
  /\ contextGraph.edges =
       <<[from |-> frames[2].id, to |-> frames[3].id, type |-> "parent-child"]>>

\* C14 as stated: storeContext and retrieveContext never fail, whatever key,
\* value and options they are called with.
C14_NeverFail ==
  last.op \in {"store", "retrieve"} => ~last.error

\* C15 as stated: a retrieveContext of a key that no tier holds returns null
\* without an error and changes neither a tier nor the stack nor the graph.
C15_MissingKeyNull ==
  [][(last'.op = "retrieve" /\ \A t \in Tiers : ~HasKey(memoryStore[t], last'.key)) =>
       /\ ~last'.error
       /\ last'.result = NullValue
       /\ memoryStore' = memoryStore
       /\ scopeStack' = scopeStack
       /\ contextGraph' = contextGraph]_vars

\* C16: a retrieveContext(k) that finds k returns the value of the copy in
\* the first tier holding k in the order hot, warm, cold, archived, and leaves
\* that copy, in its tier or in the tier one step above, with its accessCount
\* raised by exactly 1; every other entry, a copy of k in a later tier
\* included, stays in its tier with its value and accessCount unchanged.
C16_RetrieveFirstCopy ==
  [][(last'.op = "retrieve" /\ ~last'.error /\ FirstTierWith(memoryStore, last'.key) # "") =>
       LET k == last'.key
           found == FirstTierWith(memoryStore, k)
           copy == GetKey(memoryStore[found], k)
       IN /\ \A i \in 1..Len(SearchOrder) :
               SearchOrder[i] = found =>
                 \A j \in 1..(i - 1) : ~HasKey(memoryStore[SearchOrder[j]], k)
          /\ last'.result = copy.value
          /\ \E dest \in {found, TierAbove(found)} :
               /\ HasKey(memoryStore'[dest], k)
               /\ GetKey(memoryStore'[dest], k).value = copy.value
               /\ GetKey(memoryStore'[dest], k).accessCount = copy.accessCount + 1
          /\ \A t \in Tiers : \A i \in 1..Len(memoryStore[t]) :
               LET other == memoryStore[t][i]
               IN (t # found \/ other.key # k) =>
                    /\ HasKey(memoryStore'[t], other.key)
                    /\ GetKey(memoryStore'[t], other.key) = other]_vars

\* the hot copy of a key has just been retrieved for the first time while an
\* archived copy of the same key, retrieved three times before, kept its count
C16_Witness ==
  /\ last.op = "retrieve"
  /\ last.key = K1
  /\ HasKey(memoryStore["hot"], K1)
  /\ GetKey(memoryStore["hot"], K1).accessCount = 1
  /\ HasKey(memoryStore["archived"], K1)
  /\ GetKey(memoryStore["archived"], K1).accessCount = 3

\* the last call was a storeContext that completed
StoreDone == last.op = "store" /\ ~last.error

\* the tier named holds, under the key just stored, the entry just built
FreshIn(tier) ==
  /\ HasKey(memoryStore[tier], last.key)
  /\ GetKey(memoryStore[tier], last.key).value = last.value
  /\ GetKey(memoryStore[tier], last.key).accessCount = 0
  /\ GetKey(memoryStore[tier], last.key).timestamp = now

\* the last two calls were storeContext(k, v1, {tier: hot}) and then
\* storeContext(k, v2, {tier: cold})
HotThenCold ==
  /\ StoreDone
  /\ last.tier = "cold"
  /\ last.prev.tier = "hot"
  /\ last.prev.key = last.key

ChronologicalDone ==
  /\ last.op = "search"
  /\ last.searchType \in {"", "chronological"}

\* the key holds the term as a run of consecutive characters
Contains(key, term) ==
  \E before, behind \in 0..Len(key) :
    /\ before + Len(term) + behind = Len(key)
    /\ \A i \in 1..Len(term) : key[before + i] = term[i]

\* C18: a chronological search returns one result for every entry, in any of
\* the four tiers, whose key contains the term (one per tier and key, carrying
\* the entry's value), and nothing else, ordered by creation time with the most
\* recent first.
C18_ChronologicalSearch ==
  ChronologicalDone =>
    LET res == last.results
    IN /\ \A t \in Tiers : \A i \in 1..Len(memoryStore[t]) :
            Contains(memoryStore[t][i].key, last.key) =>
              Cardinality({j \in 1..Len(res) :
                             /\ res[j].tier = t
                             /\ res[j].key = memoryStore[t][i].key}) = 1
       /\ \A j \in 1..Len(res) :
            /\ res[j].tier \in Tiers
            /\ Contains(res[j].key, last.key)
            /\ HasKey(memoryStore[res[j].tier], res[j].key)
            /\ GetKey(memoryStore[res[j].tier], res[j].key).value = res[j].value
            /\ GetKey(memoryStore[res[j].tier], res[j].key).timestamp = res[j].timestamp
       /\ \A i, j \in 1..Len(res) : i < j => res[i].timestamp >= res[j].timestamp

\* a search for "k" over a key held in warm since the day before and another
\* stored into cold today: two results, the cold one, scanned last, first
C18_Witness ==
  /\ ChronologicalDone
  /\ last.key = <<"k">>
  /\ Len(last.results) = 2
  /\ last.results[1].tier = "cold"
  /\ last.results[1].timestamp = now
  /\ last.results[2].tier = "warm"
  /\ last.results[2].timestamp < now
  /\ last.results[1].key # last.results[2].key

C20_NoModelNoEffect ==
  [][(last'.op \in {"initializeScopeFrameworks", "setOrg", "setProject"}
        /\ last'.model.kind \in {"null", "undefined"}) =>
       /\ ~last'.error
       /\ UNCHANGED <<scopeStack, contextGraph, frames, tensorRegistry, spaceRegistry,
                      boundaries, atomSpace, memoryStore>>
       /\ org' = IF last'.op = "setOrg" THEN last'.model ELSE org
       /\ project' = IF last'.op = "setProject" THEN last'.model ELSE project]_vars

\* setOrg(null) after an org and a project were selected: the org field is
\* null, and both frames, tensors and spaces are still there
C20_Witness ==
  /\ last.op = "setOrg"
  /\ last.model = Null
  /\ org = Null
  /\ project = ScopeModel("p1", "project")
  /\ Len(scopeStack) = 2
  /\ Len(tensorRegistry) = 4
  /\ Len(spaceRegistry) = 2
  /\ Len(boundaries) = 2

\* this.scopeStack[this.scopeStack.length - 1] || null, as a frame
CurrentFrame(fr, stack) == fr[stack[Len(stack)]]

\* C21: initializeScopeFrameworks called with a scope model m (directly, or by
\* setOrg or setProject) pushes exactly one frame onto the stack, that frame is
\* the current scope afterwards and its config.scopeId is m.id, the tensor
\* registry then holds a tensor named "scope_" + m.id, and the space registry
\* holds a space for m built by this call, one entry more than before unless it
\* already held a space under that name.
C21_InitializePushesOne ==
  [][(last'.op \in {"initializeScopeFrameworks", "setOrg", "setProject"}
        /\ last'.model.kind = "model") =>
       LET m == last'.model
           name == <<"domain_", m.type, "_", m.id>>
       IN /\ ~last'.error
          /\ Len(frames') = Len(frames) + 1
          /\ scopeStack' = Append(scopeStack, Len(frames'))
          /\ CurrentFrame(frames', scopeStack').config.scopeId = m.id
          /\ CurrentFrame(frames', scopeStack').config.scopeModel = m
          /\ HasKey(tensorRegistry', <<"scope_", m.id>>)
          /\ GetKey(tensorRegistry', <<"scope_", m.id>>).shape = <<1, 1>>
          /\ HasKey(spaceRegistry', name)
          /\ GetKey(spaceRegistry', name).operations = <<>>
          /\ GetKey(spaceRegistry', name).created = now
          /\ Len(spaceRegistry') =
               Len(spaceRegistry) + (IF HasKey(spaceRegistry, name) THEN 0 ELSE 1)
          /\ \A i \in 1..Len(spaceRegistry) :
               spaceRegistry[i].key # name => spaceRegistry[i] \in
                 {spaceRegistry'[j] : j \in 1..Len(spaceRegistry')}]_vars

\* initializeScopeFrameworks called for the project after the org was selected:
\* the project's frame is on top of the org's, with both tensors and spaces
C21_Witness ==
  /\ last.op = "initializeScopeFrameworks"
  /\ last.model = ScopeModel("p1", "project")
  /\ scopeStack = <<1, 2>>
  /\ frames[2].config.scopeId = "p1"
  /\ frames[1].config.scopeId = "o1"
  /\ HasKey(tensorRegistry, <<"scope_", "p1">>)
  /\ HasKey(spaceRegistry, <<"domain_", "project", "_", "p1">>)
  /\ HasKey(spaceRegistry, <<"domain_", "org", "_", "o1">>)
  /\ org = ScopeModel("o1", "org")

\* C22 as stated: executeInSpace on a space name that is not in the registry
\* fails with a "Space not found" error and changes no space and no registry;
\* on a registered space it appends exactly one operation record to that space
\* and changes no other space.
C22_ExecuteInSpace ==
  [][last'.op = "executeInSpace" =>
       IF ~HasKey(spaceRegistry, last'.key)
       THEN /\ last'.error
            /\ last'.message = "Space not found"
            /\ UNCHANGED <<spaceRegistry, tensorRegistry, boundaries, atomSpace>>
       ELSE /\ ~last'.error
            /\ Len(spaceRegistry') = Len(spaceRegistry)
            /\ \A i \in 1..Len(spaceRegistry) :
                 IF spaceRegistry[i].key = last'.key
                 THEN /\ Len(spaceRegistry'[i].operations) =
                           Len(spaceRegistry[i].operations) + 1
                      /\ SubSeq(spaceRegistry'[i].operations, 1,
                                Len(spaceRegistry[i].operations)) =
                           spaceRegistry[i].operations
                 ELSE spaceRegistry'[i] = spaceRegistry[i]
            /\ UNCHANGED <<tensorRegistry, boundaries, atomSpace>>]_vars

\* the entry is older than 24 hours and was accessed fewer than 5 times
DueForDemotion(entry, clock) ==
  /\ clock - entry.timestamp > 24
  /\ entry.accessCount < 5

\* C23: after every storeContext that completes (a caller's, or popScope's) hot
\* holds no entry that is both older than 24 hours and accessed fewer than 5
\* times; each such entry has left hot and, where its key is still in warm, is
\* the entry held there; and a hot entry at most 24 hours old or accessed 5
\* times or more does not arrive in warm.
C23_Demotion ==
  /\ []((last.op \in {"store", "pop"} /\ ~last.error) =>
         \A i \in 1..Len(memoryStore["hot"]) :
           ~DueForDemotion(memoryStore["hot"][i], now))
  /\ [][(last'.op \in {"store", "pop"} /\ ~last'.error) =>
         \A i \in 1..Len(memoryStore["hot"]) :
           LET e == memoryStore["hot"][i]
           IN (last'.tier = "hot" /\ last'.key = e.key)
              \/ IF DueForDemotion(e, now)
                 THEN /\ ~HasKey(memoryStore'["hot"], e.key)
                      /\ HasKey(memoryStore'["warm"], e.key) =>
                           GetKey(memoryStore'["warm"], e.key) = e
                 ELSE ~(HasKey(memoryStore'["warm"], e.key)
                        /\ GetKey(memoryStore'["warm"], e.key) = e)]_vars

\* a storeContext of k2 made 36 hours after one of k1 into hot: k1, retrieved
\* four times, has left hot and is in warm
C23_Witness ==
  /\ StoreDone
  /\ last.key = K2
  /\ now = 36
  /\ ~HasKey(memoryStore["hot"], K1)
  /\ HasKey(memoryStore["warm"], K1)
  /\ GetKey(memoryStore["warm"], K1).accessCount = 4
  /\ GetKey(memoryStore["warm"], K1).timestamp = 0
  /\ HasKey(memoryStore["hot"], K2)

\* the store as the dedup pass of a storeContext finds it: the new entry
\* written, the demotions made
BeforeDedup ==
  LET written == [memoryStore EXCEPT
                    ![last'.tier] = SetKey(@, ContextEntry(last'.key, last'.value, 0, now))]
  IN DemoteLoop(written, written["hot"], 1, now)

\* entry i of tier t comes after an entry with an equal serialized value, in
\* the order hot, warm, cold and then insertion order within a tier
HasEarlierEqual(ms, fr, t, i) ==
  \E u \in 1..Len(DedupOrder) : \E j \in 1..Len(ms[DedupOrder[u]]) :
    /\ \E v \in 1..Len(DedupOrder) :
         /\ DedupOrder[v] = t
         /\ (u < v \/ (u = v /\ j < i))
    /\ JSONStringify(fr, ms[DedupOrder[u]][j].value) = JSONStringify(fr, ms[t][i].value)

\* C24: of the entries of hot, warm and cold that the dedup pass finds with
\* equal serialized values, the first in the order hot, warm, cold and then
\* insertion order within a tier is kept as it is and every later one is
\* deleted; an entry with no equal before it, so every entry whose serialized
\* value is unique, is kept, the entries kept stay in their order, and archived
\* is left as it is.
C24_FirstSurvives ==
  [][(last'.op = "store" /\ ~last'.error) =>
       LET mid == BeforeDedup
       IN /\ \A t \in {"hot", "warm", "cold"} :
               /\ \A i \in 1..Len(mid[t]) :
                    IF HasEarlierEqual(mid, frames, t, i)
                    THEN ~HasKey(memoryStore'[t], mid[t][i].key)
                    ELSE /\ HasKey(memoryStore'[t], mid[t][i].key)
                         /\ GetKey(memoryStore'[t], mid[t][i].key) = mid[t][i]
               /\ memoryStore'[t] =
                    SelectSeq(mid[t], LAMBDA e : HasKey(memoryStore'[t], e.key))
          /\ memoryStore'["archived"] = mid["archived"]]_vars

\* k3 has just been stored into hot with the value that k2 holds in hot and
\* k1, promoted from archived, held in cold: of the three only k2 is left
C24_Witness ==
  /\ StoreDone
  /\ last.key = <<"k", "3">>
  /\ last.tier = "hot"
  /\ last.duplicate
  /\ storeCalls[K1] = 1
  /\ storeCalls[K2] = 1
  /\ TiersOf(memoryStore, K2) = {"hot"}
  /\ GetKey(memoryStore["hot"], K2).value = last.value
  /\ TiersOf(memoryStore, K1) = {}
  /\ TiersOf(memoryStore, last.key) = {}

\* the entries of hot, warm and cold, each with its tier
DedupedEntries(ms) ==
  UNION {{[tier |-> t, entry |-> ms[t][i]] : i \in 1..Len(ms[t])} :
         t \in {"hot", "warm", "cold"}}

\* no two entries of hot, warm and cold have equal serialized values
NoTwoAlike(ms, fr) ==
  \A x, y \in DedupedEntries(ms) :
    x # y => JSONStringify(fr, x.entry.value) # JSONStringify(fr, y.entry.value)

\* C25: after every storeContext that completes and every successful popScope
\* no two entries held in hot, warm or cold, under different keys or in
\* different tiers, have equal serialized values.
C25_NoTwoAlike ==
  (last.op \in {"store", "pop"} /\ ~last.error) => NoTwoAlike(memoryStore, frames)

\* a popScope made while k2 in hot and k1 in cold, promoted from archived,
\* held values that serialize alike: k1 is gone and the scope is archived
C25_Witness ==
  /\ last.op = "pop"
  /\ ~last.error
  /\ storeCalls[K1] = 1
  /\ storeCalls[K2] = 1
  /\ TiersOf(memoryStore, K2) = {"hot"}
  /\ TiersOf(memoryStore, K1) = {}
  /\ Len(memoryStore["archived"]) = 1

\* the tier an entry stored in archived is in after n retrievals in a row
TierAfter(n) ==
  IF n <= 10 THEN "archived"
  ELSE IF n = 11 THEN "cold"
  ELSE IF n = 12 THEN "warm"
  ELSE "hot"

Copies(ms, key, value) ==
  Cardinality({t \in Tiers : HasKey(ms[t], key) /\ GetKey(ms[t], key).value = value})

\* the values held under the key in some tier
ValuesOf(ms, key) == {GetKey(ms[t], key).value : t \in TiersOf(ms, key)}

\* C27: a retrieveContext call deletes and overwrites no entry: every key is
\* held with every value as many times over the four tiers after the call as
\* before it, and a tier that comes to hold the retrieved key in the call did
\* not hold an entry under that key before.
C27_RetrieveKeepsEntries ==
  [][last'.op = "retrieve" =>
       /\ KeysOf(memoryStore') = KeysOf(memoryStore)
       /\ \A k \in KeysOf(memoryStore) :
            \A v \in ValuesOf(memoryStore, k) \cup ValuesOf(memoryStore', k) :
              Copies(memoryStore', k, v) = Copies(memoryStore, k, v)
       /\ \A t \in Tiers :
            (/\ HasKey(memoryStore'[t], last'.key)
             /\ HasKey(memoryStore[t], last'.key)) =>
              \/ GetKey(memoryStore'[t], last'.key) = GetKey(memoryStore[t], last'.key)
              \/ /\ t = FirstTierWith(memoryStore, last'.key)
                 /\ GetKey(memoryStore'[t], last'.key) =
                      Touch(GetKey(memoryStore[t], last'.key), now)]_vars

\* the cold copy of a key has just been promoted to warm while archived holds
\* another copy of the key, untouched
C27_Witness ==
  /\ last.op = "retrieve"
  /\ last.key = K1
  /\ TiersOf(memoryStore, K1) = {"warm", "archived"}
  /\ GetKey(memoryStore["warm"], K1).accessCount = 11
  /\ GetKey(memoryStore["archived"], K1).accessCount = 0

\* archived holds an entry whose value serializes as the value just stored
AlikeInArchived ==
  \E i \in 1..Len(memoryStore["archived"]) :
    JSONStringify(frames, memoryStore["archived"][i].value) =
      JSONStringify(frames, last.value)

\* C28: an entry of archived is removed, moved or altered only by a
\* retrieveContext of its key or by a storeContext into archived under its key
\* (a caller's, or popScope's), so never by the demotion and dedup pass of
\* another call; and a value held in archived is not counted as seen: an entry
\* stored into hot, warm or cold is kept when only archived entries hold a
\* value serializing as its value does.
C28_ArchivedExempt ==
  /\ []((/\ StoreDone
         /\ last.tier # "archived"
         /\ ~last.duplicate
         /\ ~(last.tier = "warm" /\ last.shadowed)
         /\ AlikeInArchived) => FreshIn(last.tier))
  /\ [][\A i \in 1..Len(memoryStore["archived"]) :
          LET e == memoryStore["archived"][i]
          IN \/ /\ i <= Len(memoryStore'["archived"])
                /\ memoryStore'["archived"][i] = e
             \/ /\ last'.op = "retrieve"
                /\ last'.key = e.key
             \/ /\ last'.op \in {"store", "pop"}
                /\ last'.tier = "archived"
                /\ last'.key = e.key]_vars

\* k2 has just been stored into hot, a day after k1 went into archived with
\* the same value: both are held, k1 as it was
C28_Witness ==
  /\ StoreDone
  /\ last.key = K2
  /\ last.tier = "hot"
  /\ FreshIn("hot")
  /\ HasKey(memoryStore["archived"], K1)
  /\ GetKey(memoryStore["archived"], K1).timestamp < now
  /\ GetKey(memoryStore["archived"], K1).value = last.value
  /\ GetKey(memoryStore["archived"], K1).accessCount = 0

\* C29: searchContexts, whatever its type, and getCurrentScope change nothing:
\* no entry, accessCount or tier, neither the stack nor the graph nor any
\* scope; getCurrentScope returns the last frame of the stack, or null when the
\* stack is empty.
C29_ReadsChangeNothing ==
  [][last'.op \in {"search", "getCurrentScope"} =>
       /\ ~last'.error
       /\ UNCHANGED <<memoryStore, scopeStack, contextGraph, frames, now, storeCalls>>
       /\ UNCHANGED serviceVars
       /\ last'.op = "getCurrentScope" =>
            last'.result = IF scopeStack = <<>> THEN NullValue
                           ELSE ScopeValue(scopeStack[Len(scopeStack)])]_vars

\* getCurrentScope called with two scopes on the stack and an entry stored:
\* the second scope, child of the first, is returned
C29_Witness ==
  /\ last.op = "getCurrentScope"
  /\ scopeStack = <<1, 2>>
  /\ last.result = ScopeValue(2)
  /\ frames[2].parent = 1
  /\ Len(memoryStore["hot"]) = 1

\* seq starts with the elements of prefix, in their order
StartsWith(seq, prefix) ==
  /\ Len(seq) >= Len(prefix)
  /\ SubSeq(seq, 1, Len(prefix)) = prefix

\* C30: the graph is append-only: every call leaves the nodes and the edges
\* it found as they were and in their order, at the head of the arrays;
\* popScope, storeContext, retrieveContext, searchContexts and getCurrentScope
\* leave the graph unchanged; so every scope ever pushed, popped or not, keeps
\* its node and, when it has a parent, its edge.
C30_GraphAppendOnly ==
  /\ [](\A r \in 1..Len(frames) :
          /\ \E i \in 1..Len(contextGraph.nodes) :
               contextGraph.nodes[i] = [id |-> frames[r].id, type |-> "scope", data |-> r]
          /\ frames[r].parent # NoRef =>
               \E i \in 1..Len(contextGraph.edges) :
                 contextGraph.edges[i] = [from |-> frames[frames[r].parent].id,
                                          to |-> frames[r].id, type |-> "parent-child"])
  /\ [][/\ StartsWith(contextGraph'.nodes, contextGraph.nodes)
        /\ StartsWith(contextGraph'.edges, contextGraph.edges)
        /\ last'.op \in {"pop", "store", "retrieve", "search", "getCurrentScope"} =>
             contextGraph' = contextGraph]_vars

\* two scopes pushed and both popped, an entry stored, retrieved and searched
\* for: the graph still holds both nodes and the edge between them
C30_Witness ==
  /\ last.op = "search"
  /\ scopeStack = <<>>
  /\ Len(memoryStore["archived"]) = 2
  /\ Len(memoryStore["hot"]) = 1
  /\ memoryStore["hot"][1].accessCount = 1
  /\ Len(contextGraph.nodes) = 2
  /\ contextGraph.edges =
       <<[from |-> frames[1].id, to |-> frames[2].id, type |-> "parent-child"]>>

\* C31: in every reachable state the stack is its own parent chain: the frame
\* at the bottom of the stack has no parent, and the parent of the frame at
\* every other position is the frame directly below it on the stack.
C31_StackIsParentChain ==
  \A i \in 1..Len(scopeStack) :
    frames[scopeStack[i]].parent = IF i = 1 THEN NoRef ELSE scopeStack[i - 1]

\* the first scope pushed and popped, then two pushed on the emptied stack: the
\* bottom frame has no parent and the frame above it names it, not the popped
\* frame
C31_Witness ==
  /\ Len(frames) = 3
  /\ scopeStack = <<2, 3>>
  /\ frames[1].parent = NoRef
  /\ frames[2].parent = NoRef
  /\ frames[3].parent = 2
  /\ Len(memoryStore["archived"]) = 1
  /\ last.op = "retrieve"

\* the positions of the nodes with the id
NodesWithId(graph, id) == {i \in 1..Len(graph.nodes) : graph.nodes[i].id = id}

\* C32: in every reachable state node ids are distinct, the from and the to of
\* every edge are ids of nodes of the graph, the from node was appended before
\* the to node, and no node is the target of more than one edge; so every
\* edge leads from an earlier node to a later one and the edges form a forest.
C32_EdgesFormForest ==
  /\ \A i, j \in 1..Len(contextGraph.nodes) :
       contextGraph.nodes[i].id = contextGraph.nodes[j].id => i = j
  /\ \A e \in 1..Len(contextGraph.edges) :
       LET edge == contextGraph.edges[e]
       IN /\ NodesWithId(contextGraph, edge.from) # {}
          /\ NodesWithId(contextGraph, edge.to) # {}
          /\ \A i \in NodesWithId(contextGraph, edge.from) :
               \A j \in NodesWithId(contextGraph, edge.to) : i < j
          /\ \A f \in 1..Len(contextGraph.edges) :
               contextGraph.edges[f].to = edge.to => f = e

\* a scope with two children, one of them popped before the other was pushed:
\* two edges leave the first node and each child is the target of one
C32_Witness ==
  /\ Len(contextGraph.nodes) = 3
  /\ Len(contextGraph.edges) = 2
  /\ contextGraph.edges[1].from = contextGraph.nodes[1].id
  /\ contextGraph.edges[1].to = contextGraph.nodes[2].id
  /\ contextGraph.edges[2].from = contextGraph.nodes[1].id
  /\ contextGraph.edges[2].to = contextGraph.nodes[3].id
  /\ scopeStack = <<1, 3>>

\* the last call was a graph search
GraphSearchDone == last.op = "search" /\ last.searchType = "graph"

\* the frame and the frames it names as parent, grandparent, ...
RECURSIVE Chain(_, _)
Chain(fr, r) == IF r = NoRef THEN {} ELSE {r} \cup Chain(fr, fr[r].parent)

\* the positions of the nodes whose serialized scope contains the term
MatchingNodes(term) ==
  {i \in 1..Len(contextGraph.nodes) :
     Contains(StringifyFrame(frames, contextGraph.nodes[i].data), term)}

\* the results are the matching nodes and no others, in the order of the nodes
ExactlyMatching(results, term) ==
  /\ Len(results) = Cardinality(MatchingNodes(term))
  /\ \A j \in 1..Len(results) :
       \E i \in MatchingNodes(term) :
         /\ Cardinality({h \in MatchingNodes(term) : h < i}) = j - 1
         /\ results[j].key = contextGraph.nodes[i].id
         /\ results[j].value = ScopeValue(contextGraph.nodes[i].data)

\* the results name the scope
Returned(results, r) == \E j \in 1..Len(results) : results[j].value = ScopeValue(r)

\* C33 as stated: a graph search returns exactly the nodes whose serialized
\* scope contains the term, in push order, and a term that occurs in the config
\* of scope F matches the node of F and the node of every scope pushed while F
\* was on the stack, popped or not.
C33_TermInConfig ==
  GraphSearchDone =>
    /\ ExactlyMatching(last.results, last.key)
    /\ \A F \in 1..Len(frames) :
         Contains(frames[F].config, last.key) =>
           \A G \in 1..Len(frames) : F \in Chain(frames, G) => Returned(last.results, G)

\* C33, amended: the same for a term that occurs in the config of F as JSON
\* writes it, with a backslash before every quote.
C33_GraphSearch ==
  GraphSearchDone =>
    /\ ExactlyMatching(last.results, last.key)
    /\ \A F \in 1..Len(frames) :
         Contains(StringifyString(frames[F].config), last.key) =>
           \A G \in 1..Len(frames) : F \in Chain(frames, G) => Returned(last.results, G)

\* a search for "parent" after a scope of that config and a child of another
\* config were pushed and popped: both nodes are returned, in push order
C33_Witness ==
  /\ GraphSearchDone
  /\ last.key = <<"parent">>
  /\ Len(frames) = 2
  /\ frames[1].config = <<"parent">>
  /\ frames[2].config # <<"parent">>
  /\ frames[2].parent = 1
  /\ scopeStack = <<>>
  /\ Len(last.results) = 2
  /\ last.results[1].value = ScopeValue(1)
  /\ last.results[2].value = ScopeValue(2)

\* C34: with setOrg and setProject the only calls made, the stack holds every
\* scope ever pushed, in call order, each naming the one below it as parent; a
\* call with a model adds one frame for that model on top and keeps the frames
\* below, whether or not an org or a project was selected before, and a call
\* with no model leaves the stack as it is. So the depth is the number of calls
\* made with a model.
C34_ServiceOnlyPushes ==
  /\ [](/\ scopeStack = [i \in 1..Len(frames) |-> i]
        /\ \A i \in 1..Len(frames) :
             frames[i].parent = IF i = 1 THEN NoRef ELSE i - 1)
  /\ [][last'.op \in {"setOrg", "setProject"} =>
         IF last'.model.kind = "model"
         THEN /\ Len(scopeStack') = Len(scopeStack) + 1
              /\ SubSeq(scopeStack', 1, Len(scopeStack)) = scopeStack
              /\ SubSeq(frames', 1, Len(frames)) = frames
              /\ CurrentFrame(frames', scopeStack').config.scopeModel = last'.model
              /\ CurrentFrame(frames', scopeStack').parent = TopOf(scopeStack)
         ELSE /\ scopeStack' = scopeStack
              /\ frames' = frames]_vars

\* setOrg, setProject and then setOrg with the same org again: depth 3, the second frame of the org on top of the project's, which is on
\* top of the first frame of the org
C34_Witness ==
  /\ last.op = "setOrg"
  /\ scopeStack = <<1, 2, 3>>
  /\ frames[1].config.scopeId = "o1"
  /\ frames[2].config.scopeId = "p1"
  /\ frames[3].config.scopeId = "o1"
  /\ frames[3].parent = 2
  /\ frames[2].parent = 1
  /\ org = ScopeModel("o1", "org")
  /\ project = ScopeModel("p1", "project")

\* the scope models mapScopeToDomain was called with, in call order (every
\* call comes with a pushScope of the model, and nothing is popped)
Mapped == [r \in 1..Len(frames) |-> frames[r].config.scopeModel]

\* the latest call of mapScopeToDomain for a scope of the type
LatestOfType(type) == Max({r \in 1..Len(Mapped) : Mapped[r].type = type})

\* C35: after any sequence of mapScopeToDomain calls there is exactly one
\* boundary for every scope type mapped and none else, named after the type
\* and carrying the domain and the constraints of the scope of that type
\* mapped last; every space, those of scopes mapped earlier included, names
\* the boundary of its type; and there is exactly one space for every pair of
\* type and id mapped and none else.
C35_BoundaryPerType ==
  /\ \A i, j \in 1..Len(boundaries) : boundaries[i].key = boundaries[j].key => i = j
  /\ \A i, j \in 1..Len(spaceRegistry) :
       spaceRegistry[i].key = spaceRegistry[j].key => i = j
  /\ {boundaries[i].key : i \in 1..Len(boundaries)} =
       {<<"boundary_", Mapped[r].type>> : r \in 1..Len(Mapped)}
  /\ \A i \in 1..Len(boundaries) :
       LET m == Mapped[LatestOfType(boundaries[i].key[2])]
       IN /\ boundaries[i].domain = m
          /\ boundaries[i].constraints = [scopeType |-> m.type, scopeId |-> m.id]
  /\ {spaceRegistry[i].key : i \in 1..Len(spaceRegistry)} =
       {<<"domain_", Mapped[r].type, "_", Mapped[r].id>> : r \in 1..Len(Mapped)}
  /\ \A i \in 1..Len(spaceRegistry) :
       /\ spaceRegistry[i].boundary = <<"boundary_", spaceRegistry[i].key[2]>>
       /\ HasKey(boundaries, spaceRegistry[i].boundary)

\* two orgs and a project mapped, the first org first: one boundary for orgs,
\* carrying the second org, and one for projects; three spaces, both orgs'
\* naming the one boundary for orgs
C35_Witness ==
  /\ Len(frames) = 3
  /\ Mapped[1] = ScopeModel("o1", "org")
  /\ Mapped[2] = ScopeModel("p1", "project")
  /\ Mapped[3] = ScopeModel("o2", "org")
  /\ Len(boundaries) = 2
  /\ GetKey(boundaries, <<"boundary_", "org">>).domain = ScopeModel("o2", "org")
  /\ Len(spaceRegistry) = 3
  /\ GetKey(spaceRegistry, <<"domain_", "org", "_", "o1">>).boundary = <<"boundary_", "org">>
  /\ GetKey(spaceRegistry, <<"domain_", "org", "_", "o2">>).boundary = <<"boundary_", "org">>

====
